---- MODULE Spec2Model ----
(***************************************************************************)
(* Model of the DM HUD State Container (scripts/state/state-manager.js):   *)
(* the path utility, the state document, the subscriber list, the          *)
(* throttled persist timer and the localStorage entry 'dmHudState'.        *)
(*                                                                         *)
(* JavaScript values are modelled as nodes of one uniform record shape:    *)
(*   t : "undef" | "null" | "bool" | "num" | "str" | "obj" | "arr"         *)
(*   p : payload of a string ("str") or "true"/"false" ("bool")            *)
(*   n : payload of a number                                               *)
(*   k : own named property keys, in insertion order (objects; for arrays  *)
(*       the non-index properties, which JSON serialization drops)         *)
(*   c : the values of the keys k, aligned with k                          *)
(*   e : the elements of an array                                          *)
(* A dot-separated path string is modelled by the sequence of its          *)
(* segments (what path.split('.') returns); the empty string '' is <<"">>. *)
(* Path segments are property names that are neither array indices nor     *)
(* built-in properties of primitives (such as "length").                   *)
(***************************************************************************)
EXTENDS Integers, Sequences, FiniteSets, TLC

\* ------------------------------------------------------------------------
\* JavaScript values
\* ------------------------------------------------------------------------
Node(t, p, n, k, c, e) == [t |-> t, p |-> p, n |-> n, k |-> k, c |-> c, e |-> e]

Undef == Node("undef", "", 0, <<>>, <<>>, <<>>)

Null == Node("null", "", 0, <<>>, <<>>, <<>>)

Bool(b) == Node("bool", IF b THEN "true" ELSE "false", 0, <<>>, <<>>, <<>>)

Num(i) == Node("num", "", i, <<>>, <<>>, <<>>)

Str(s) == Node("str", s, 0, <<>>, <<>>, <<>>)

\* the number NaN
NaN == Node("nan", "", 0, <<>>, <<>>, <<>>)

Obj(keys, vals) == Node("obj", "", 0, keys, vals, <<>>)

Arr(elems) == Node("arr", "", 0, <<>>, <<>>, elems)

EmptyObj == Obj(<<>>, <<>>)

\* ToBoolean: undefined, null, false, 0 and '' are falsy
Truthy(v) ==
    CASE v.t \in {"obj", "arr"} -> TRUE
      [] v.t = "num" -> v.n # 0
      [] v.t = "str" -> v.p # ""
      [] v.t = "bool" -> v.p = "true"
      [] OTHER -> FALSE

IsRef(v) == v.t \in {"obj", "arr"}

\* position of key in the key list of v, 0 when v has no such own property
KeyPos(v, key) ==
    IF \E i \in 1..Len(v.k) : v.k[i] = key
    THEN CHOOSE i \in 1..Len(v.k) : v.k[i] = key
    ELSE 0

\* v[key] for v other than null and undefined: a primitive has no such
\* property
GetProp(v, key) ==
    IF IsRef(v) /\ KeyPos(v, key) # 0 THEN v.c[KeyPos(v, key)] ELSE Undef

\* v[key] = val for v other than null and undefined: in non-strict code the
\* assignment to a property of a primitive is silently ignored
SetProp(v, key, val) ==
    IF ~IsRef(v) THEN v
    ELSE IF KeyPos(v, key) # 0
         THEN [v EXCEPT !.c[KeyPos(v, key)] = val]
         ELSE [v EXCEPT !.k = Append(@, key), !.c = Append(@, val)]

RECURSIVE StringifyParse(_), CopyProps(_, _, _), CopyElems(_, _, _)
\* JSON.parse(JSON.stringify(v)) for v that JSON.stringify serializes (not
\* undefined): properties holding undefined are dropped from objects,
\* undefined array elements become null, non-index properties of arrays are
\* dropped, NaN becomes null
StringifyParse(v) ==
    CASE v.t = "obj" -> CopyProps(v, 1, EmptyObj)
      [] v.t = "arr" -> Arr(CopyElems(v.e, 1, <<>>))
      [] v.t = "nan" -> Null
      [] OTHER -> v

\* the properties of v from the i-th on, copied onto acc
CopyProps(v, i, acc) ==
    IF i > Len(v.k) THEN acc
    ELSE CopyProps(v, i + 1,
                   IF v.c[i].t = "undef" THEN acc
                   ELSE SetProp(acc, v.k[i], StringifyParse(v.c[i])))

\* the elements from the i-th on, copied onto acc
CopyElems(elems, i, acc) ==
    IF i > Len(elems) THEN acc
    ELSE CopyElems(elems, i + 1,
                   Append(acc, IF elems[i].t = "undef" THEN Null
                               ELSE StringifyParse(elems[i])))

\* ------------------------------------------------------------------------
\* Path utility
\* ------------------------------------------------------------------------
RECURSIVE _getNestedValue(_, _)
\* path.split('.').reduce((prev, curr) =>
\*     prev && prev[curr] !== undefined ? prev[curr] : undefined, obj)
_getNestedValue(obj, path) ==
    IF path = <<>> THEN obj
    ELSE LET prev == _getNestedValue(obj, SubSeq(path, 1, Len(path) - 1))
             curr == path[Len(path)]
         IN  IF Truthy(prev) /\ GetProp(prev, curr).t # "undef"
             THEN GetProp(prev, curr)
             ELSE Undef

\* a completion: ok = FALSE is a thrown TypeError
Done(v) == [ok |-> TRUE, val |-> v]

Thrown == [ok |-> FALSE, val |-> Undef]

RECURSIVE SetWalk(_, _, _)
\* the loop and the final assignment of _setNestedValue, started at the
\* object `current`; returns the object as it is after the walk
SetWalk(current, parts, value) ==
    IF current.t \in {"undef", "null"} THEN Thrown
    ELSE IF Len(parts) = 1 THEN Done(SetProp(current, parts[1], value))
    ELSE LET part == parts[1]
             made == IF Truthy(GetProp(current, part)) THEN current
                     ELSE SetProp(current, part, EmptyObj)
             r == SetWalk(GetProp(made, part), Tail(parts), value)
         IN  IF ~r.ok THEN Thrown
             ELSE Done(SetProp(made, part, r.val))

_setNestedValue(obj, path, value) == SetWalk(StringifyParse(obj), path, value)

\* ------------------------------------------------------------------------
\* Program state
\* ------------------------------------------------------------------------
VARIABLES
    _state,         \* the state document
    _subscribers,   \* sequence of subscribed callbacks, one entry per subscribe call
    _saveTimeout,   \* handle of the pending persist timer, 0 for null
    timers,         \* the host's pending timers: set of [id, left]
    storage,        \* localStorage entry 'dmHudState': [kind, doc]
    calls,          \* subscriber invocations made by the last operation
    events,         \* stateChanged events dispatched by the last operation
    writes,         \* localStorage.setItem calls made by the last operation
    op,             \* the last operation: name, arguments, result
    held,           \* a reference the caller holds: [val, in, at, src]
    burst,          \* since the last mutation: [on, age, n, at, saved]
    probe,          \* inputs and results of a path-utility evaluation
    view            \* the Combat Console: [on, shown, active]

vars == <<_state, _subscribers, _saveTimeout, timers, storage, calls, events,
          writes, op, held, burst, probe, view>>

\* ------------------------------------------------------------------------
\* Bounds and inputs
\* ------------------------------------------------------------------------
\* SAVE_DELAY = 2000 ms, in seconds
SAVE_DELAY == 2

MaxSubs == 3

MaxItems == 2

\* writes are counted up to MaxWrites
MaxWrites == 2

\* the ISO-8601 string of the current time
Stamp == Str("<now>")

\* the default document (lines 23-81), restricted to the keys the operations
\* of this model read or write; the remaining keys are carried along unchanged
DefaultState ==
    Obj(<<"ui", "story", "combat", "settings">>,
        << Obj(<<"activeTab", "lastSaved">>, <<Str("story"), Null>>),
           Obj(<<"campaign">>, <<Obj(<<"name">>, <<Str("")>>)>>),
           Obj(<<"inCombat", "initiative", "round", "activeIndex">>,
               <<Bool(FALSE), Arr(<<>>), Num(0), Num(-1)>>),
           Obj(<<"autosaveInterval", "confirmBeforeDelete">>,
               <<Num(60), Bool(TRUE)>>) >>)

\* ------------------------------------------------------------------------
\* The store as a record, so that one handler can be run to completion
\* ------------------------------------------------------------------------
\* st, subs, tid, timers, storage: the program state; calls, events, writes:
\* what the handler did; exc: an exception is propagating; ret: the value
\* returned; disk: whether localStorage.setItem succeeds during the handler;
\* view: the Combat Console, whose listener runs inside the handler
Machine(disk) ==
    [st |-> _state, subs |-> _subscribers, tid |-> _saveTimeout,
     timers |-> timers, storage |-> storage, calls |-> <<>>, events |-> <<>>,
     writes |-> 0, exc |-> FALSE, ret |-> Undef, disk |-> disk, view |-> view]

Throw(M) == [M EXCEPT !.exc = TRUE]

Return(M, v) == [M EXCEPT !.ret = v]

\* ------------------------------------------------------------------------
\* Persistence
\* ------------------------------------------------------------------------
\* JSON.stringify(_state): the text is modelled by the document it parses to
Stringify(v) == [kind |-> "json", doc |-> StringifyParse(v)]

NoEntry == [kind |-> "absent", doc |-> Undef]

\* a persist that arms a timer to try again when storage rejects the write
_saveToStorage_Retry(M) ==
    [M EXCEPT !.writes = @ + 1,
              !.storage = IF M.disk THEN [kind |-> "json", doc |-> StringifyParse(M.st)]
                          ELSE @,
              !.timers = IF M.disk THEN @ ELSE @ \cup {[id |-> 1, left |-> SAVE_DELAY]}]

\* try { localStorage.setItem('dmHudState', JSON.stringify(_state)) } catch
_saveToStorage(M) ==
    [M EXCEPT !.writes = @ + 1,
              !.storage = IF M.disk THEN Stringify(M.st) ELSE @]

\* clearTimeout(id): a handle that names no pending timer is ignored
ClearTimeout(ts, id) == { t \in ts : t.id # id }

\* the handle setTimeout returns: a positive integer not in use
FreshId(ts, tid) ==
    CHOOSE i \in 1..(Cardinality(ts) + 2) :
        /\ i # tid
        /\ \A t \in ts : t.id # i
        /\ \A j \in 1..(i-1) : j = tid \/ \E t \in ts : t.id = j

_throttledSave(M) ==
    LET cleared == IF M.tid # 0 THEN ClearTimeout(M.timers, M.tid) ELSE M.timers
        id == FreshId(cleared, M.tid)
    IN  [M EXCEPT !.timers = cleared \cup {[id |-> id, left |-> SAVE_DELAY]},
                  !.tid = id]

\* save() that leaves the pending timer armed
_forceSave_KeepTimer(M) == _saveToStorage(M)

_forceSave(M) ==
    LET m1 == IF M.tid # 0
              THEN [M EXCEPT !.timers = ClearTimeout(M.timers, M.tid), !.tid = 0]
              ELSE M
    IN  _saveToStorage(m1)

\* ------------------------------------------------------------------------
\* Subscribers
\* ------------------------------------------------------------------------
\* The callbacks a client may subscribe:
\*   cbA records its arguments and the document getState() returns
\*   cbB records its arguments
\*   cbT records its arguments and throws
\*   cbU records its arguments and calls its own unsubscribe function
CbIds == {"cbA", "cbB", "cbT", "cbU"}

\* first index of callback in the list, 0 for indexOf = -1
IndexOf(subs, cb) ==
    IF \E i \in 1..Len(subs) : subs[i] = cb
    THEN CHOOSE i \in 1..Len(subs) : subs[i] = cb /\ \A j \in 1..(i-1) : subs[j] # cb
    ELSE 0

\* _subscribers.splice(index, 1)
Splice(subs, index) ==
    SubSeq(subs, 1, index - 1) \o SubSeq(subs, index + 1, Len(subs))

_subscribe(M, callback) == [M EXCEPT !.subs = Append(@, callback)]

\* the function _subscribe returns
Unsubscribe(M, callback) ==
    IF IndexOf(M.subs, callback) # 0
    THEN [M EXCEPT !.subs = Splice(@, IndexOf(M.subs, callback))]
    ELSE M

\* getState that returns the value found in the document, not a copy of it
_getState_NoCopy(st, path) ==
    IF path = <<"">>
    THEN [val |-> st, in |-> TRUE, at |-> <<>>]
    ELSE [val |-> _getNestedValue(st, path),
          in |-> IsRef(_getNestedValue(st, path)), at |-> path]

\* _getState: [val, in, at]; `in` tells whether val is an object of the
\* internal document, found there at path `at`
_getState(st, path) ==
    IF path = <<"">>
    THEN [val |-> StringifyParse(st), in |-> FALSE, at |-> <<>>]
    ELSE LET value == _getNestedValue(st, path)
         IN  [val |-> IF value.t # "undef" THEN StringifyParse(value) ELSE Undef,
              in |-> FALSE, at |-> <<>>]

\* what a callback does to an object or array it received: it sets a
\* property of the object, it replaces the elements of the array
Tamper(v) ==
    IF v.t = "obj" THEN SetProp(v, "tampered", Bool(TRUE))
    ELSE Arr(<<Str("tampered")>>)

\* the property names of the first array indices
IndexKeys == <<"0", "1", "2", "3">>

\* position in an array of the element the property name key denotes, 0 when
\* it is none of the first indices
ElemPos(key) ==
    IF \E i \in 1..Len(IndexKeys) : IndexKeys[i] = key
    THEN CHOOSE i \in 1..Len(IndexKeys) : IndexKeys[i] = key
    ELSE 0

RECURSIVE ValueAt(_, _)
\* what the document holds at path `at`, array elements addressed by index
ValueAt(doc, at) ==
    IF at = <<>> THEN doc
    ELSE IF doc.t = "arr"
         THEN IF ElemPos(at[1]) \in 1..Len(doc.e)
              THEN ValueAt(doc.e[ElemPos(at[1])], Tail(at))
              ELSE Undef
         ELSE ValueAt(GetProp(doc, at[1]), Tail(at))

RECURSIVE PutAt(_, _, _)
\* the document after the object found at path `at` has become `new`
PutAt(doc, at, new) ==
    IF at = <<>> THEN new
    ELSE IF doc.t = "arr"
         THEN IF ElemPos(at[1]) \in 1..Len(doc.e)
              THEN [doc EXCEPT !.e[ElemPos(at[1])] = PutAt(@, Tail(at), new)]
              ELSE doc
         ELSE SetProp(doc, at[1], PutAt(GetProp(doc, at[1]), Tail(at), new))

\* the document after the object newValue, handed out with path, was changed
\* by Tamper: the document changes when newValue is the document itself or
\* the object the document holds at the path
Tampered(st, path, newValue) ==
    IF ~IsRef(newValue) THEN st
    ELSE IF newValue = st THEN Tamper(st)
    ELSE IF _getNestedValue(st, path) = newValue THEN PutAt(st, path, Tamper(newValue))
    ELSE st

RECURSIVE _setState(_, _, _, _)
\* the path and the value a subscriber writes when it reacts to a change
DerivedPath == <<"combat", "round">>

DerivedValue == Num(1)

\* one invocation callback(path, newValue); a further callback, cbM, records
\* its arguments and changes the value it received; another one, cbS,
\* records its arguments and, unless the change is its own, calls
\* StateManager.setState(DerivedPath, DerivedValue)
RunCallback(M, cb, path, newValue) ==
    LET rec == [cb |-> cb, path |-> path, value |-> newValue,
                snap |-> IF cb = "cbA" THEN _getState(M.st, <<"">>).val ELSE Undef]
        m1 == [M EXCEPT !.calls = Append(@, rec)]
    IN  CASE cb = "cbT" -> Throw(m1)
          [] cb = "cbU" -> Unsubscribe(m1, cb)
          [] cb = "cbM" -> [m1 EXCEPT !.st = Tampered(@, path, newValue)]
          [] cb = "cbS" -> IF path = DerivedPath THEN m1
                           ELSE _setState(m1, DerivedPath, DerivedValue, FALSE)
          [] OTHER -> m1

\* try { callback(path, newValue) } catch (error) { console.error(...) }
TryCatch(M) == [M EXCEPT !.exc = FALSE]

RECURSIVE ForEach(_, _, _, _, _)
\* Array.prototype.forEach: the length is read once, index k is visited only
\* if it is still present in the array
ForEach(M, k, len, path, newValue) ==
    IF M.exc \/ k > len THEN M
    ELSE IF k > Len(M.subs) THEN ForEach(M, k + 1, len, path, newValue)
    ELSE ForEach(TryCatch(RunCallback(M, M.subs[k], path, newValue)),
                 k + 1, len, path, newValue)

\* CombatConsole._render: the three fragments are written from
\* getState().combat, which `shown` stands for; the initiative list, sorted
\* by initiative (stable: the order is kept among equal values), marks the
\* combatant at activeIndex and stores its id. A combat section that is no
\* object with an initiative array makes the render throw
_render(V, st) ==
    LET combat == GetProp(_getState(st, <<"">>).val, "combat")
        initiative == GetProp(combat, "initiative")
        activeIndex == GetProp(combat, "activeIndex")
        marked == /\ GetProp(combat, "inCombat") = Bool(TRUE)
                  /\ activeIndex.t = "num"
                  /\ activeIndex.n + 1 \in 1..Len(initiative.e)
    IN  IF combat.t # "obj" \/ initiative.t # "arr" THEN V
        ELSE [V EXCEPT !.shown = combat,
                       !.active = IF marked
                                  THEN GetProp(initiative.e[activeIndex.n + 1], "id")
                                  ELSE @]

\* CombatConsole._handleStateChange: if (path.startsWith('combat.')) _render()
_handleStateChange(V, st, path) ==
    IF Len(path) >= 2 /\ path[1] = "combat" THEN _render(V, st) ELSE V

\* document.dispatchEvent(event): the listeners bound to 'stateChanged' run
DispatchEvent(M, path) ==
    IF M.view.on THEN [M EXCEPT !.view = _handleStateChange(@, M.st, path)] ELSE M

_notifySubscribers(M, path, newValue) ==
    LET m1 == [M EXCEPT !.events = Append(@, [path |-> path, value |-> newValue])]
        m2 == DispatchEvent(m1, path)
    IN  ForEach(m2, 1, Len(m2.subs), path, newValue)

\* ------------------------------------------------------------------------
\* State access and mutation
\* ------------------------------------------------------------------------
\* _state.ui.lastSaved = new Date().toISOString()
StampLastSaved(st) ==
    LET ui == GetProp(st, "ui")
    IN  IF ui.t \in {"undef", "null"} THEN Thrown
        ELSE Done(SetProp(st, "ui", SetProp(ui, "lastSaved", Stamp)))

\* setState whose silent call does not schedule the persist
_setState_SilentNoSave(M, path, value, silent) ==
    LET r == _setNestedValue(M.st, path, value)
        s == StampLastSaved(r.val)
    IN  IF ~r.ok THEN Throw(M)
        ELSE IF ~s.ok THEN Throw([M EXCEPT !.st = r.val])
        ELSE IF silent THEN [M EXCEPT !.st = s.val]
        ELSE _notifySubscribers(_throttledSave([M EXCEPT !.st = s.val]), path, value)

_setState(M, path, value, silent) ==
    LET r == _setNestedValue(M.st, path, value)
        s == StampLastSaved(r.val)
    IN  IF ~r.ok THEN Throw(M)
        ELSE IF ~s.ok THEN Throw([M EXCEPT !.st = r.val])
        ELSE LET m1 == _throttledSave([M EXCEPT !.st = s.val])
             IN  IF silent THEN m1 ELSE _notifySubscribers(m1, path, value)

RECURSIVE ApplyAll(_, _, _)
\* for (const [path, value] of Object.entries(updates))
\*     updatedState = _setNestedValue(updatedState, path, value)
\* from entry i on; updates is the sequence Object.entries(updates)
ApplyAll(updatedState, updates, i) ==
    IF i > Len(updates) THEN Done(updatedState)
    ELSE LET r == _setNestedValue(updatedState, updates[i].path, updates[i].value)
         IN  IF ~r.ok THEN Thrown ELSE ApplyAll(r.val, updates, i + 1)

RECURSIVE NotifyAll(_, _, _)
\* for (const path of Object.keys(updates))
\*     _notifySubscribers(path, _getNestedValue(_state, path))
NotifyAll(M, updates, i) ==
    IF M.exc \/ i > Len(updates) THEN M
    ELSE NotifyAll(_notifySubscribers(M, updates[i].path,
                                      _getNestedValue(M.st, updates[i].path)),
                   updates, i + 1)

_batchUpdate(M, updates, silent) ==
    LET r == ApplyAll(M.st, updates, 1)
        s == StampLastSaved(r.val)
    IN  IF ~r.ok THEN Throw(M)
        ELSE IF ~s.ok THEN Throw([M EXCEPT !.st = r.val])
        ELSE LET m1 == _throttledSave([M EXCEPT !.st = s.val])
             IN  IF silent THEN m1 ELSE NotifyAll(m1, updates, 1)

\* _getState(arrayPath) || []
ArrayAt(st, arrayPath) ==
    LET a == _getState(st, arrayPath).val
    IN  IF Truthy(a) THEN a ELSE Arr(<<>>)

\* a === b for a primitive b
StrictEq(a, b) == ~IsRef(a) /\ a = b

\* _addItem; id is the string the call of _generateId returns when it is made
_addItem(M, arrayPath, item, id) ==
    LET item1 == IF ~Truthy(GetProp(item, "id")) THEN SetProp(item, "id", Str(id))
                 ELSE item
        array == ArrayAt(M.st, arrayPath)
    IN  \* [...array, item]: a value that is not iterable throws (a path that
        \* holds a non-empty string, which spreads into its characters, is
        \* not among the inputs)
        IF array.t # "arr" THEN Throw(M)
        ELSE Return(_setState(M, arrayPath, Arr(Append(array.e, item1)), FALSE),
                    GetProp(item1, "id"))

\* array.findIndex(item => item.id === itemId), 0 for -1
FindIndex(elems, itemId) ==
    IF \E i \in 1..Len(elems) : StrictEq(GetProp(elems[i], "id"), itemId)
    THEN CHOOSE i \in 1..Len(elems) :
            /\ StrictEq(GetProp(elems[i], "id"), itemId)
            /\ \A j \in 1..(i-1) : ~StrictEq(GetProp(elems[j], "id"), itemId)
    ELSE 0

RECURSIVE AssignAll(_, _, _)
\* { ...target, ...source }: the own properties of source, from the i-th on,
\* assigned to target in order
AssignAll(target, source, i) ==
    IF i > Len(source.k) THEN target
    ELSE AssignAll(SetProp(target, source.k[i], source.c[i]), source, i + 1)

\* item.id throws for an element that is null: findIndex reads the elements
\* up to the first match, filter reads all of them
NullRead(elems, last) == \E i \in 1..last : elems[i].t = "null"

RECURSIVE MergeAll(_, _, _)
\* the properties of source, from the i-th on, merged into target: a nested
\* object is merged into the object target holds under the same name
MergeAll(target, source, i) ==
    IF i > Len(source.k) THEN target
    ELSE LET old == GetProp(target, source.k[i])
             new == IF old.t = "obj" /\ source.c[i].t = "obj"
                    THEN MergeAll(old, source.c[i], 1)
                    ELSE source.c[i]
         IN  MergeAll(SetProp(target, source.k[i], new), source, i + 1)

\* updateItem that merges nested fields instead of replacing them
_updateItem_DeepMerge(M, arrayPath, itemId, updates) ==
    LET array == ArrayAt(M.st, arrayPath)
        index == FindIndex(array.e, itemId)
        updatedItem == MergeAll(AssignAll(EmptyObj, array.e[index], 1), updates, 1)
        newArray == Arr(SubSeq(array.e, 1, index - 1) \o <<updatedItem>>
                        \o SubSeq(array.e, index + 1, Len(array.e)))
    IN  IF array.t # "arr" THEN Throw(M)
        ELSE IF NullRead(array.e, IF index = 0 THEN Len(array.e) ELSE index)
             THEN Throw(M)
        ELSE IF index = 0 THEN Return(M, Bool(FALSE))
        ELSE Return(_setState(M, arrayPath, newArray, FALSE), Bool(TRUE))

_updateItem(M, arrayPath, itemId, updates) ==
    LET array == ArrayAt(M.st, arrayPath)
        index == FindIndex(array.e, itemId)
        updatedItem == AssignAll(AssignAll(EmptyObj, array.e[index], 1), updates, 1)
        newArray == Arr(SubSeq(array.e, 1, index - 1) \o <<updatedItem>>
                        \o SubSeq(array.e, index + 1, Len(array.e)))
    IN  \* array.findIndex is not a function unless array is an array
        IF array.t # "arr" THEN Throw(M)
        ELSE IF NullRead(array.e, IF index = 0 THEN Len(array.e) ELSE index)
             THEN Throw(M)
        ELSE IF index = 0 THEN Return(M, Bool(FALSE))
        ELSE Return(_setState(M, arrayPath, newArray, FALSE), Bool(TRUE))

RECURSIVE Filter(_, _)
\* array.filter(item => item.id !== itemId)
Filter(elems, itemId) ==
    IF elems = <<>> THEN <<>>
    ELSE IF StrictEq(GetProp(Head(elems), "id"), itemId)
         THEN Filter(Tail(elems), itemId)
         ELSE <<Head(elems)>> \o Filter(Tail(elems), itemId)

\* removeItem that writes the filtered array back whether or not an element
\* was removed
_removeItem_AlwaysWrite(M, arrayPath, itemId) ==
    LET array == ArrayAt(M.st, arrayPath)
        newArray == Filter(array.e, itemId)
    IN  IF array.t # "arr" \/ NullRead(array.e, Len(array.e)) THEN Throw(M)
        ELSE Return(_setState(M, arrayPath, Arr(newArray), FALSE),
                    Bool(Len(newArray) # Len(array.e)))

_removeItem(M, arrayPath, itemId) ==
    LET array == ArrayAt(M.st, arrayPath)
        newArray == Filter(array.e, itemId)
    IN  \* array.filter is not a function unless array is an array
        IF array.t # "arr" \/ NullRead(array.e, Len(array.e)) THEN Throw(M)
        ELSE IF Len(newArray) = Len(array.e) THEN Return(M, Bool(FALSE))
        ELSE Return(_setState(M, arrayPath, Arr(newArray), FALSE), Bool(TRUE))

\* ------------------------------------------------------------------------
\* Inputs
\* ------------------------------------------------------------------------
In(path, value) == [path |-> path, value |-> value]

Item(id, name) == Obj(<<"id", "name">>, <<Str(id), Str(name)>>)

\* an item that carries no id
Anon(name) == Obj(<<"name">>, <<Str(name)>>)

Ids == {"i1", "i2"}

InitiativePath == <<"combat", "initiative">>

\* writes to a leaf, through a missing segment, through a falsy primitive
\* (round is 0), through a truthy primitive (activeIndex is -1), of a whole
\* section, and of the ui section itself
SetInputs ==
    { In(<<"ui", "activeTab">>, Str("combat")),
      In(<<"combat", "activeIndex">>, Num(0)),
      In(<<"settings", "theme", "name">>, Str("light")),
      In(<<"combat", "round", "x">>, Num(1)),
      In(<<"combat", "activeIndex", "x">>, Num(1)),
      In(<<"ui", "activeTab", "a", "b">>, Num(1)),
      In(<<"settings">>, Obj(<<"autosaveInterval">>, <<Num(30)>>)),
      In(<<"ui">>, Null) }

\* ------------------------------------------------------------------------
\* Operations
\* ------------------------------------------------------------------------
NoOp == [name |-> "none", path |-> <<>>, value |-> Undef, upd |-> <<>>,
         silent |-> FALSE, ret |-> Undef, exc |-> FALSE, disk |-> TRUE]

NoHeld == [val |-> Undef, in |-> FALSE, at |-> <<>>, src |-> "none"]

NoBurst == [on |-> FALSE, age |-> 0, n |-> 0, at |-> -1, saved |-> FALSE]

\* the Combat Console before CombatConsole.init(): no listener is bound
NoView == [on |-> FALSE, shown |-> Undef, active |-> Null]

NoProbe == [pc |-> "off", doc |-> Undef, path |-> <<>>, value |-> Undef,
            out |-> Thrown, got |-> Undef]

InitStore ==
    /\ _state = DefaultState
    /\ _subscribers = <<>>
    /\ _saveTimeout = 0
    /\ timers = {}
    /\ storage = NoEntry
    /\ calls = <<>>
    /\ events = <<>>
    /\ writes = 0
    /\ op = NoOp
    /\ held = NoHeld
    /\ burst = NoBurst
    /\ view = NoView

Init == InitStore /\ probe = NoProbe

\* the handler ran to completion (or threw) and left the store as in M
Commit(M) ==
    /\ _state' = M.st
    /\ _subscribers' = M.subs
    /\ _saveTimeout' = M.tid
    /\ timers' = M.timers
    /\ storage' = M.storage
    /\ calls' = M.calls
    /\ events' = M.events
    /\ writes' = M.writes
    /\ view' = M.view

Called(name, path, value, upd, silent, M) ==
    op' = [name |-> name, path |-> path, value |-> value, upd |-> upd,
           silent |-> silent, ret |-> M.ret, exc |-> M.exc, disk |-> M.disk]

\* burst.on: a mutation was made; age: seconds since the last mutation (up
\* to AgeCap); n: writes to storage since then (up to MaxWrites); at: age at the last of these
\* writes; saved: save() was called since then.
\* A call that installed a new document starts a new burst.
Mutated(M) ==
    /\ burst' = IF M.st # _state \/ ~M.exc THEN [NoBurst EXCEPT !.on = TRUE]
                ELSE burst
    \* the document was replaced by a copy: what the caller holds is no
    \* longer part of it
    /\ held' = [held EXCEPT !.in = FALSE]
    /\ UNCHANGED probe

Wrote(M, forced) ==
    /\ burst' = [burst EXCEPT !.n = IF @ + M.writes > MaxWrites THEN MaxWrites
                                     ELSE @ + M.writes,
                              !.at = IF M.writes > 0 THEN burst.age ELSE @,
                              !.saved = @ \/ forced]
    /\ UNCHANGED <<held, probe>>

SetState(inputs) ==
    \E in \in inputs, silent \in BOOLEAN :
        LET m == _setState(Machine(TRUE), in.path, in.value, silent)
        IN  /\ Commit(m)
            /\ Called("setState", in.path, in.value, <<>>, silent, m)
            /\ Mutated(m)

BatchUpdate(mappings) ==
    \E updates \in mappings, silent \in BOOLEAN :
        LET m == _batchUpdate(Machine(TRUE), updates, silent)
        IN  /\ Commit(m)
            /\ Called("batchUpdate", <<>>, Undef, updates, silent, m)
            /\ Mutated(m)

\* the strings _generateId can return for a collection: the time in base 36
\* followed by five random characters, taken here to differ from every id
\* the collection holds
GeneratedIds(elems) ==
    { i \in Ids : \A k \in 1..Len(elems) : ~StrictEq(GetProp(elems[k], "id"), Str(i)) }

AddItem(paths, items) ==
    \E arrayPath \in paths, item \in items :
      \E id \in GeneratedIds(ArrayAt(_state, arrayPath).e) :
        /\ ArrayAt(_state, arrayPath).t = "arr" => Len(ArrayAt(_state, arrayPath).e) < MaxItems
        /\ LET m == _addItem(Machine(TRUE), arrayPath, item, id)
           IN  /\ Commit(m)
               /\ Called("addItem", arrayPath, item, <<>>, FALSE, m)
               /\ Mutated(m)

UpdateItem(paths, patches) ==
    \E arrayPath \in paths, itemId \in Ids, updates \in patches :
        LET m == _updateItem(Machine(TRUE), arrayPath, Str(itemId), updates)
        IN  /\ Commit(m)
            /\ Called("updateItem", arrayPath, Str(itemId), <<updates>>, FALSE, m)
            /\ IF m.ret = Bool(TRUE) \/ m.exc THEN Mutated(m)
               ELSE UNCHANGED <<burst, held, probe>>

RemoveItem(paths) ==
    \E arrayPath \in paths, itemId \in Ids :
        LET m == _removeItem(Machine(TRUE), arrayPath, Str(itemId))
        IN  /\ Commit(m)
            /\ Called("removeItem", arrayPath, Str(itemId), <<>>, FALSE, m)
            /\ IF m.ret = Bool(TRUE) \/ m.exc THEN Mutated(m)
               ELSE UNCHANGED <<burst, held, probe>>

Subscribe ==
    \E cb \in CbIds :
        /\ Len(_subscribers) < MaxSubs
        /\ LET m == _subscribe(Machine(TRUE), cb)
           IN  /\ Commit(m)
               /\ Called("subscribe", <<>>, Str(cb), <<>>, FALSE, m)
               /\ UNCHANGED <<burst, held, probe>>

\* a client calls the unsubscribe function an earlier subscribe returned
CallUnsubscribe ==
    \E cb \in CbIds :
        /\ IndexOf(_subscribers, cb) # 0
        /\ LET m == Unsubscribe(Machine(TRUE), cb)
           IN  /\ Commit(m)
               /\ Called("unsubscribe", <<>>, Str(cb), <<>>, FALSE, m)
               /\ UNCHANGED <<burst, held, probe>>

\* the handlers below change no subscriber and call none
Quiet(name) ==
    /\ calls' = <<>>
    /\ events' = <<>>
    /\ writes' = 0
    /\ op' = [NoOp EXCEPT !.name = name]
    /\ UNCHANGED view

AgeCap == SAVE_DELAY + 1

\* one second passes; a timer that is due runs before more time passes
Tick ==
    /\ \A t \in timers : t.left > 0
    /\ timers' = { [t EXCEPT !.left = @ - 1] : t \in timers }
    /\ burst' = [burst EXCEPT !.age = IF @ < AgeCap THEN @ + 1 ELSE @]
    /\ Quiet("tick")
    /\ UNCHANGED <<_state, _subscribers, _saveTimeout, storage, held, probe>>

\* the function _throttledSave hands to setTimeout
TimerCallback(M) == [_saveToStorage(M) EXCEPT !.tid = 0]

\* the host runs a timer that is due
TimerFire ==
    \E t \in timers, disk \in BOOLEAN :
        /\ t.left = 0
        /\ LET m == TimerCallback([Machine(disk) EXCEPT !.timers = @ \ {t}])
           IN  /\ Commit(m)
               /\ Called("timer", <<>>, Undef, <<>>, FALSE, m)
               /\ Wrote(m, FALSE)

\* StateManager.save()
Save ==
    \E disk \in BOOLEAN :
        LET m == _forceSave(Machine(disk))
        IN  /\ Commit(m)
            /\ Called("save", <<>>, Undef, <<>>, FALSE, m)
            /\ Wrote(m, TRUE)

ReadPaths ==
    { <<"">>, <<"combat">>, <<"combat", "initiative">>, <<"settings">>,
      <<"ui", "activeTab">>, <<"story", "notes">> }

\* StateManager.getState(path); the caller keeps what it returns
GetState ==
    \E path \in ReadPaths :
        LET r == _getState(_state, path)
        IN  /\ held' = [val |-> r.val, in |-> r.in, at |-> r.at, src |-> "getState"]
            /\ calls' = <<>>
            /\ events' = <<>>
            /\ writes' = 0
            /\ op' = [NoOp EXCEPT !.name = "getState", !.path = path, !.ret = r.val]
            /\ UNCHANGED <<_state, _subscribers, _saveTimeout, timers, storage,
                           burst, probe, view>>

\* ways a caller changes an object or array it holds: set a property or
\* delete them all; truncate or overwrite the elements
Tampers(v) ==
    IF v.t = "obj"
    THEN { SetProp(v, "tampered", Bool(TRUE)), EmptyObj }
    ELSE { Arr(<<>>), Arr(<<Str("tampered")>>) }

\* the caller mutates the object it holds; the document changes with it
\* exactly when that object is part of the document
CallerMutate ==
    /\ IsRef(held.val)
    /\ \E new \in Tampers(held.val) :
        /\ held' = [held EXCEPT !.val = new]
        /\ _state' = IF held.in THEN PutAt(_state, held.at, new) ELSE _state
    /\ Quiet("mutate")
    /\ UNCHANGED <<_subscribers, _saveTimeout, timers, storage, burst, probe>>

\* StateManager.subscribe(cb) for a callback of the set cbs
SubscribeOf(cbs) ==
    \E cb \in cbs :
        /\ Len(_subscribers) < MaxSubs
        /\ LET m == _subscribe(Machine(TRUE), cb)
           IN  /\ Commit(m)
               /\ Called("subscribe", <<>>, Str(cb), <<>>, FALSE, m)
               /\ UNCHANGED <<burst, held, probe>>

\* ------------------------------------------------------------------------
\* Callers that keep the object they passed in
\* ------------------------------------------------------------------------
\* the caller's object v after the call that stored it at path `at`: stored
\* under ui it has received the lastSaved stamp
Stamped(v, at) == IF at = <<"ui">> THEN SetProp(v, "lastSaved", Stamp) ELSE v

\* the caller keeps v, which the call assigned at path `at` of the copy it
\* made of the document; assigned tells whether that copy is the one the
\* call installed
Kept(M, v, at, assigned, src) ==
    /\ burst' = IF M.st # _state \/ ~M.exc THEN [NoBurst EXCEPT !.on = TRUE]
                ELSE burst
    /\ held' = LET in == /\ assigned
                         /\ ~M.exc
                         /\ IsRef(v)
                         /\ ValueAt(M.st, at) = Stamped(v, at)
               IN  [val |-> IF in THEN Stamped(v, at) ELSE v,
                    in |-> in, at |-> at, src |-> src]
    /\ UNCHANGED probe

\* StateManager.setState(path, v); the caller keeps v
SetStateKeep(inputs) ==
    \E in \in inputs, silent \in BOOLEAN :
        LET m == _setState(Machine(TRUE), in.path, in.value, silent)
        IN  /\ Commit(m)
            /\ Called("setState", in.path, in.value, <<>>, silent, m)
            /\ Kept(m, in.value, in.path, TRUE, "setState")

\* StateManager.batchUpdate(m); the caller keeps one of the values of m.
\* Each assignment copies the document the one before it produced (line
\* 481), so the installed document holds the value assigned last
BatchUpdateKeep(mappings) ==
    \E updates \in mappings, silent \in BOOLEAN :
      \E i \in 1..Len(updates) :
        LET m == _batchUpdate(Machine(TRUE), updates, silent)
        IN  /\ Commit(m)
            /\ Called("batchUpdate", <<>>, Undef, updates, silent, m)
            /\ Kept(m, updates[i].value, updates[i].path, i = Len(updates),
                    "batchUpdate")

\* StateManager.addItem(arrayPath, item); the caller keeps item, which has
\* received its id (line 510) and is the last element of the new array
AddItemKeep(paths, items) ==
    \E arrayPath \in paths, item \in items :
      \E id \in GeneratedIds(ArrayAt(_state, arrayPath).e) :
        /\ ArrayAt(_state, arrayPath).t = "arr" => Len(ArrayAt(_state, arrayPath).e) < MaxItems
        /\ LET m == _addItem(Machine(TRUE), arrayPath, item, id)
               item1 == IF ~Truthy(GetProp(item, "id")) THEN SetProp(item, "id", Str(id))
                        ELSE item
               n == Len(ArrayAt(m.st, arrayPath).e)
           IN  /\ Commit(m)
               /\ Called("addItem", arrayPath, item, <<>>, FALSE, m)
               /\ Kept(m, item1,
                       arrayPath \o <<IF n \in 1..Len(IndexKeys) THEN IndexKeys[n] ELSE "">>,
                       TRUE, "addItem")

\* ------------------------------------------------------------------------
\* Deep merge, import, reset, initialize
\* ------------------------------------------------------------------------
\* isObject(item): item && typeof item === 'object' && !Array.isArray(item)
isObject(item) == item.t = "obj"

\* Object.assign({}, target): the own enumerable properties of target on a
\* new object; null, undefined, numbers and booleans have none, an array has
\* its indices (arrays longer than IndexKeys and non-empty strings, whose
\* characters would be copied, are not among the inputs)
ObjectAssign(target) ==
    CASE target.t = "obj" -> AssignAll(EmptyObj, target, 1)
      [] target.t = "arr" ->
            Obj(SubSeq(IndexKeys, 1, Len(target.e)) \o target.k, target.e \o target.c)
      [] OTHER -> EmptyObj

RECURSIVE _deepMerge(_, _), MergeKeys(_, _, _, _)
_deepMerge(target, source) ==
    IF isObject(target) /\ isObject(source)
    THEN MergeKeys(ObjectAssign(target), target, source, 1)
    ELSE ObjectAssign(target)

\* Object.keys(source).forEach(key => ...) from the i-th key on; `key in
\* target` is modelled for own properties
MergeKeys(output, target, source, i) ==
    IF i > Len(source.k) THEN output
    ELSE LET key == source.k[i]
             new == IF isObject(source.c[i]) /\ KeyPos(target, key) # 0
                    THEN _deepMerge(GetProp(target, key), source.c[i])
                    ELSE source.c[i]
         IN  MergeKeys(SetProp(output, key, new), target, source, i + 1)

RECURSIVE StillShared(_, _, _)
\* whether the object that target holds at path `at` is the same object in
\* _deepMerge(target, source): the output is a new object whose properties
\* are those of target, except the ones source replaces or merges
StillShared(target, source, at) ==
    IF at = <<>> THEN FALSE
    ELSE IF ~(isObject(target) /\ isObject(source)) THEN TRUE
    ELSE IF KeyPos(source, at[1]) = 0 THEN TRUE
    ELSE IF isObject(GetProp(source, at[1])) /\ KeyPos(target, at[1]) # 0
         THEN StillShared(GetProp(target, at[1]), GetProp(source, at[1]), Tail(at))
         ELSE FALSE

\* a text that JSON.parse rejects; a text it accepts is modelled by the value
\* it parses to, which is never undefined
BadText == Undef

\* import that saves and notifies before it reports the bad text
_importState_SaveFirst(M, jsonState) ==
    LET m1 == _forceSave(M)
        m2 == _notifySubscribers(m1, <<"">>, m1.st)
    IN  IF jsonState = BadText THEN Return(m2, Bool(FALSE))
        ELSE Return([m2 EXCEPT !.st = _deepMerge(M.st, jsonState)], Bool(TRUE))

\* _importState: JSON.parse throws inside the try block for a bad text
_importState(M, jsonState) ==
    IF jsonState = BadText THEN Return(M, Bool(FALSE))
    ELSE LET m1 == _forceSave([M EXCEPT !.st = _deepMerge(M.st, jsonState)])
         IN  Return(_notifySubscribers(m1, <<"">>, m1.st), Bool(TRUE))

\* StateManager.import(text)
Import(texts) ==
    \E jsonState \in texts, disk \in BOOLEAN :
        LET m == _importState(Machine(disk), jsonState)
        IN  /\ Commit(m)
            /\ Called("import", <<>>, jsonState, <<>>, FALSE, m)
            /\ IF m.ret = Bool(TRUE)
               THEN burst' = [NoBurst EXCEPT !.on = TRUE, !.n = 1, !.at = 0, !.saved = TRUE]
               ELSE UNCHANGED burst
            /\ held' = IF m.ret = Bool(TRUE)
                       THEN [held EXCEPT !.in = @ /\ StillShared(_state, jsonState, held.at)]
                       ELSE held
            /\ UNCHANGED probe

\* _resetState: the literal of lines 704-753 is the default document
_resetState(M) ==
    LET m1 == _forceSave([M EXCEPT !.st = DefaultState])
    IN  _notifySubscribers(m1, <<"">>, m1.st)

\* StateManager.reset()
Reset ==
    \E disk \in BOOLEAN :
        LET m == _resetState(Machine(disk))
        IN  /\ Commit(m)
            /\ Called("reset", <<>>, Undef, <<>>, FALSE, m)
            /\ burst' = [NoBurst EXCEPT !.on = TRUE, !.n = 1, !.at = 0, !.saved = TRUE]
            /\ held' = [held EXCEPT !.in = FALSE]
            /\ UNCHANGED probe

\* a stored text that JSON.parse rejects
BadEntry == [kind |-> "bad", doc |-> Undef]

\* the campaign of the seed dataset (lines 180-186), by its name
SeedCampaign == Obj(<<"name">>, <<Str("The Lost Mines of Phandelver")>>)

\* _initializeWithSampleData assigns the seed collections to properties of
\* _state.story, _state.characters and _state.combat, in place, and reads
\* back elements of what it assigned: it throws when one of these sections
\* is not an object.  Of the seed content the model keeps the campaign.
_initializeWithSampleData(M) ==
    IF ~IsRef(GetProp(M.st, "story")) \/ ~IsRef(GetProp(M.st, "combat"))
    THEN Throw(M)
    ELSE [M EXCEPT !.st = SetProp(@, "story",
                              SetProp(GetProp(@, "story"), "campaign", SeedCampaign))]

\* _loadFromStorage: ret tells whether a stored document was merged in
_loadFromStorage(M) ==
    IF M.storage.kind = "json"
    THEN Return([M EXCEPT !.st = _deepMerge(@, M.storage.doc)], Bool(TRUE))
    ELSE Return(M, Bool(FALSE))

initialize(M) ==
    LET m1 == _loadFromStorage(M)
        m2 == IF m1.ret = Bool(TRUE) THEN m1 ELSE _initializeWithSampleData(m1)
        m3 == IF m1.ret = Bool(TRUE) THEN m1 ELSE _forceSave(m2)
    IN  IF m2.exc THEN Return(m2, Undef)
        ELSE Return(_notifySubscribers(m3, <<"">>, m3.st), Undef)

\* StateManager.initialize(), called when the application starts: before
\* any other call except subscribe
Initialize ==
    \E disk \in BOOLEAN :
        /\ op.name \in {"none", "subscribe"}
        /\ LET m == initialize(Machine(disk))
           IN  /\ Commit(m)
               /\ Called("initialize", <<>>, Undef, <<>>, FALSE, m)
               /\ burst' = [NoBurst EXCEPT !.on = TRUE]
               /\ held' = [held EXCEPT !.in = FALSE]
               /\ UNCHANGED probe

\* a client calls an unsubscribe function that subscribe returned for a
\* callback of the set cbs: the callback has an entry, or the function was
\* called just before and is called once more
CallUnsubscribeOf(cbs) ==
    \E cb \in cbs :
        /\ \/ IndexOf(_subscribers, cb) # 0
           \/ (op.name = "unsubscribe" /\ op.value = Str(cb))
        /\ LET m == Unsubscribe(Machine(TRUE), cb)
           IN  /\ Commit(m)
               /\ Called("unsubscribe", <<>>, Str(cb), <<>>, FALSE, m)
               /\ UNCHANGED <<burst, held, probe>>

\* ------------------------------------------------------------------------
\* Combat Console
\* ------------------------------------------------------------------------
\* turns are counted up to MaxRound
MaxRound == 3

\* ToNumber for the values the turn arithmetic meets (no strings)
ToNumber(v) ==
    CASE v.t = "num" -> v
      [] v.t = "null" -> Num(0)
      [] v.t = "bool" -> Num(IF v.p = "true" THEN 1 ELSE 0)
      [] OTHER -> NaN

\* a + b for operands that are no strings and no objects
Plus(a, b) ==
    IF ToNumber(a).t = "nan" \/ ToNumber(b).t = "nan" THEN NaN
    ELSE Num(ToNumber(a).n + ToNumber(b).n)

\* a % b: NaN for a zero divisor, the sign of the dividend otherwise
Rem(a, b) ==
    LET x == ToNumber(a)
        y == ToNumber(b)
        d == IF y.n < 0 THEN 0 - y.n ELSE y.n
    IN  IF x.t = "nan" \/ y.t = "nan" \/ y.n = 0 THEN NaN
        ELSE IF x.n >= 0 THEN Num(x.n % d)
        ELSE Num(0 - ((0 - x.n) % d))

\* v.length: undefined unless v is an array (no strings)
Length(v) == IF v.t = "arr" THEN Num(Len(v.e)) ELSE Undef

\* v > 0
Positive(v) == ToNumber(v).t = "num" /\ ToNumber(v).n > 0

\* the combatant _addCombatant creates (lines 476-485), without the keys
\* currentHP, maxHP, armorClass and notes, which no operation reads
Combatant(id) ==
    Obj(<<"id", "name", "initiative", "conditions">>,
        <<Str(id), Str("New Combatant"), Num(10), Arr(<<>>)>>)

\* { ...combat, k1: v1, ... }: keys and vals are the overriding properties
Spread(combat, keys, vals) ==
    AssignAll(AssignAll(EmptyObj, combat, 1), Obj(keys, vals), 1)

\* CombatConsole.init(): binds the listeners and renders
init(M) == [M EXCEPT !.view = _render([@ EXCEPT !.on = TRUE], M.st)]

_startCombat(M) ==
    LET combat == GetProp(_getState(M.st, <<"">>).val, "combat")
        initiative == GetProp(combat, "initiative")
    IN  IF ~IsRef(combat) \/ ~IsRef(initiative) THEN Throw(M)
        ELSE IF Length(initiative) = Num(0) THEN M
        ELSE _setState(M, <<"combat">>,
                       Spread(combat, <<"inCombat", "round", "activeIndex">>,
                              <<Bool(TRUE), Num(1), Num(0)>>), FALSE)

_endCombat(M) ==
    LET combat == GetProp(_getState(M.st, <<"">>).val, "combat")
    IN  IF ~IsRef(combat) THEN Throw(M)
        ELSE _setState(M, <<"combat">>,
                       Spread(combat, <<"inCombat", "round", "activeIndex">>,
                              <<Bool(FALSE), Num(0), Num(0 - 1)>>), FALSE)

\* conditions.map(c => c.duration > 0 ? {...c, duration: c.duration - 1} : c)
\*           .filter(c => c.duration > 0)
RECURSIVE Expire(_)
Expire(conditions) ==
    IF conditions = <<>> THEN <<>>
    ELSE LET c == Head(conditions)
             d == GetProp(c, "duration")
             c1 == IF Positive(d) THEN SetProp(c, "duration", Plus(d, Num(0 - 1))) ELSE c
         IN  IF Positive(GetProp(c1, "duration"))
             THEN <<c1>> \o Expire(Tail(conditions))
             ELSE Expire(Tail(conditions))

RECURSIVE UpdateEach(_, _, _)
\* the forEach of _updateConditions over the combatants of the snapshot,
\* from the i-th on
UpdateEach(M, elems, i) ==
    IF M.exc \/ i > Len(elems) THEN M
    ELSE LET combatant == elems[i]
             conditions == GetProp(combatant, "conditions")
             updatedConditions == Expire(conditions.e)
         IN  IF conditions.t # "arr" THEN Throw(M)
             ELSE UpdateEach(
                    IF Len(updatedConditions) # Len(conditions.e)
                    THEN _updateItem(M, InitiativePath, GetProp(combatant, "id"),
                                     Obj(<<"conditions">>, <<Arr(updatedConditions)>>))
                    ELSE M,
                    elems, i + 1)

_updateConditions(M) ==
    UpdateEach(M, GetProp(GetProp(_getState(M.st, <<"">>).val, "combat"), "initiative").e, 1)

\* next turn that starts a new round on every advance
_nextTurn_RoundEachTurn(M) ==
    LET combat == GetProp(_getState(M.st, <<"">>).val, "combat")
        initiative == GetProp(combat, "initiative")
        nextIndex == Rem(Plus(GetProp(combat, "activeIndex"), Num(1)), Length(initiative))
        nextRound == Plus(GetProp(combat, "round"), Num(1))
    IN  IF ~IsRef(combat) \/ ~IsRef(initiative) THEN Throw(M)
        ELSE _setState(M, <<"combat">>,
                       Spread(combat, <<"activeIndex", "round">>, <<nextIndex, nextRound>>),
                       FALSE)

_nextTurn(M) ==
    LET combat == GetProp(_getState(M.st, <<"">>).val, "combat")
        initiative == GetProp(combat, "initiative")
        nextIndex == Rem(Plus(GetProp(combat, "activeIndex"), Num(1)), Length(initiative))
        nextRound == IF nextIndex = Num(0) THEN Plus(GetProp(combat, "round"), Num(1))
                     ELSE GetProp(combat, "round")
        m1 == _setState(M, <<"combat">>,
                        Spread(combat, <<"activeIndex", "round">>, <<nextIndex, nextRound>>),
                        FALSE)
    IN  IF ~IsRef(combat) \/ ~IsRef(initiative) THEN Throw(M)
        ELSE IF m1.exc \/ nextIndex # Num(0) THEN m1
        ELSE _updateConditions(m1)

\* StateManager.addItem('combat.initiative', newCombatant); id is the string
\* the console's _generateId returned
_addCombatant(M, id) == _addItem(M, InitiativePath, Combatant(id), id)

_removeCombatant(M, combatantId) ==
    LET m1 == _removeItem(M, InitiativePath, combatantId)
    IN  IF m1.exc THEN m1
        ELSE [m1 EXCEPT !.view.active = IF @ = combatantId THEN Null ELSE @]

\* the ids of the combatants the initiative list displays
ShownIds ==
    IF view.shown.t = "obj" /\ GetProp(view.shown, "initiative").t = "arr"
    THEN { GetProp(GetProp(view.shown, "initiative").e[i], "id") :
             i \in 1..Len(GetProp(view.shown, "initiative").e) }
    ELSE {}

\* the application starts the console
ConsoleInit ==
    /\ ~view.on
    /\ LET m == init(Machine(TRUE))
       IN  /\ Commit(m)
           /\ Called("init", <<>>, Undef, <<>>, FALSE, m)
           /\ UNCHANGED <<burst, held, probe>>

\* a console operation that wrote the document when `wrote` holds
Console(name, value, m, wrote) ==
    /\ Commit(m)
    /\ Called(name, <<>>, value, <<>>, FALSE, m)
    /\ IF wrote THEN Mutated(m) ELSE UNCHANGED <<burst, held, probe>>

StartCombat ==
    /\ view.on
    /\ LET m == _startCombat(Machine(TRUE))
       IN  Console("startCombat", Undef, m, m.st # _state)

EndCombat ==
    /\ view.on
    /\ LET m == _endCombat(Machine(TRUE))
       IN  Console("endCombat", Undef, m, TRUE)

NextTurn ==
    /\ view.on
    /\ LET round == _getNestedValue(_state, <<"combat", "round">>)
       IN  round.t = "num" => round.n < MaxRound
    /\ LET m == _nextTurn(Machine(TRUE))
       IN  Console("nextTurn", Undef, m, TRUE)

AddCombatant ==
    /\ view.on
    /\ Len(ArrayAt(_state, InitiativePath).e) < MaxItems
    /\ \E id \in GeneratedIds(ArrayAt(_state, InitiativePath).e) :
         LET m == _addCombatant(Machine(TRUE), id)
         IN  Console("addCombatant", Str(id), m, TRUE)

\* a click on the remove button of a displayed combatant
RemoveCombatant ==
    /\ view.on
    /\ \E combatantId \in ShownIds :
         LET m == _removeCombatant(Machine(TRUE), combatantId)
         IN  Console("removeCombatant", combatantId, m, m.ret = Bool(TRUE) \/ m.exc)

\* ------------------------------------------------------------------------
\* Character Manager
\* ------------------------------------------------------------------------
PlayerCharactersPath == <<"characters", "playerCharacters">>

NpcsPath == <<"characters", "npcs">>

RelationshipsPath == <<"characters", "relationships">>

\* the character _createNewCharacter creates, without the descriptive keys
Character(id, name) == Obj(<<"id", "name">>, <<Str(id), Str(name)>>)

\* a relationship shaped like the seed data (lines 352-367)
SeedRelationship(id, source, target) ==
    Obj(<<"id", "source", "target", "type">>,
        <<Str(id), Str(source), Str(target), Str("ally")>>)

\* a relationship shaped as _deleteCharacter reads it (lines 1466-1468)
PairRelationship(id, character1Id, character2Id) ==
    Obj(<<"id", "character1Id", "character2Id", "type">>,
        <<Str(id), Str(character1Id), Str(character2Id), Str("ally")>>)

\* a document with a characters section: a player character, two NPCs and
\* a relationship of either shape
RosterState ==
    SetProp(DefaultState, "characters",
            Obj(<<"playerCharacters", "npcs", "relationships">>,
                << Arr(<<Character("p1", "Hero")>>),
                   Arr(<<Character("n1", "Sildar"), Character("n2", "Gundren")>>),
                   Arr(<<SeedRelationship("r1", "n1", "n2"),
                         PairRelationship("r2", "p1", "n1")>>) >>))

\* state.characters.relationships.filter(rel =>
\*     rel.character1Id === characterId || rel.character2Id === characterId)
RECURSIVE Involving(_, _)
Involving(rels, characterId) ==
    IF rels = <<>> THEN <<>>
    ELSE IF \/ StrictEq(GetProp(Head(rels), "character1Id"), characterId)
            \/ StrictEq(GetProp(Head(rels), "character2Id"), characterId)
         THEN <<Head(rels)>> \o Involving(Tail(rels), characterId)
         ELSE Involving(Tail(rels), characterId)

RECURSIVE RemoveEach(_, _, _)
\* relationships.forEach(rel => StateManager.removeItem(..., rel.id))
RemoveEach(M, rels, i) ==
    IF M.exc \/ i > Len(rels) THEN M
    ELSE RemoveEach(_removeItem(M, RelationshipsPath, GetProp(rels[i], "id")), rels, i + 1)

\* CharacterManager._deleteCharacter; what follows the removals,
\* _selectedCharacterId = null and _render(), touches the component only
_deleteCharacter(M, characterId) ==
    LET characters == GetProp(_getState(M.st, <<"">>).val, "characters")
        pcs == GetProp(characters, "playerCharacters")
        rels == GetProp(characters, "relationships")
        isPC == FindIndex(pcs.e, characterId) # 0
        m1 == _removeItem(M, IF isPC THEN PlayerCharactersPath ELSE NpcsPath, characterId)
    IN  IF pcs.t # "arr" \/ rels.t # "arr" THEN Throw(M)
        ELSE IF m1.exc THEN m1
        ELSE RemoveEach(m1, Involving(rels.e, characterId), 1)

\* CharacterManager._createNewCharacter(type); the _selectCharacter that
\* follows touches the component only
_createNewCharacter(M, type, id) ==
    IF type = "pc"
    THEN _addItem(M, PlayerCharactersPath, Character(id, "New Character"), id)
    ELSE _addItem(M, NpcsPath, Character(id, "New NPC"), id)

\* the ids of the characters of either list
CharacterIds(st) ==
    UNION { { GetProp(ArrayAt(st, p).e[i], "id") : i \in 1..Len(ArrayAt(st, p).e) } :
              p \in {PlayerCharactersPath, NpcsPath} }

\* a click on the delete button of the selected character
DeleteCharacter ==
    \E characterId \in CharacterIds(_state) :
        LET m == _deleteCharacter(Machine(TRUE), characterId)
        IN  /\ Commit(m)
            /\ Called("deleteCharacter", <<>>, characterId, <<>>, FALSE, m)
            /\ Mutated(m)

CreateNewCharacter ==
    \E type \in {"pc", "npc"} :
      LET path == IF type = "pc" THEN PlayerCharactersPath ELSE NpcsPath
      IN  /\ Len(ArrayAt(_state, path).e) < MaxItems
          /\ \E id \in GeneratedIds(ArrayAt(_state, PlayerCharactersPath).e
                                    \o ArrayAt(_state, NpcsPath).e) :
               LET m == _createNewCharacter(Machine(TRUE), type, id)
               IN  /\ Commit(m)
                   /\ Called("createNewCharacter", path, Str(id), <<>>, FALSE, m)
                   /\ Mutated(m)

\* the host runs a timer that is due while storage accepts every write
TimerFireOk ==
    \E t \in timers :
        /\ t.left = 0
        /\ LET m == TimerCallback([Machine(TRUE) EXCEPT !.timers = @ \ {t}])
           IN  /\ Commit(m)
               /\ Called("timer", <<>>, Undef, <<>>, FALSE, m)
               /\ Wrote(m, FALSE)

\* a page refresh: the document is written to storage (save() on
\* visibilitychange), the page is loaded anew, so the store starts from the
\* default skeleton with no subscriber, no timer and no console, and
\* StateManager.initialize() runs
Reloaded(M) ==
    LET saved == _forceSave(M)
    IN  initialize([saved EXCEPT !.st = DefaultState, !.subs = <<>>, !.tid = 0,
                                 !.timers = {}, !.calls = <<>>, !.events = <<>>,
                                 !.view = NoView])

Refresh ==
    LET m == Reloaded(Machine(TRUE))
    IN  /\ Commit(m)
        /\ Called("refresh", <<>>, _state, <<>>, FALSE, m)
        /\ Wrote(m, TRUE)

\* ------------------------------------------------------------------------
\* Callers of the public object
\* ------------------------------------------------------------------------
\* the property names of the object the module returns
PublicApi ==
    { "initialize", "getState", "setState", "batchUpdate", "subscribe",
      "addItem", "updateItem", "removeItem",
      "save", "export", "import", "reset", "generateId" }

\* StateManager[name](): a name the object does not carry reads as
\* undefined, and calling undefined throws a TypeError; reset and save are
\* the methods the callers below invoke without arguments
CallMethod(M, name) ==
    IF name \notin PublicApi THEN Throw(M)
    ELSE CASE name = "reset" -> _resetState(M)
           [] name = "save" -> _forceSave(M)

\* Settings: the click on 'Reset All Settings'; confirmed is the answer
\* to confirm(). The notification that follows the call changes no state.
_handleReset(M, confirmed) ==
    IF confirmed THEN CallMethod(M, "resetState") ELSE M

\* for (section in data) for (key in data[section]) setState(section.key, ..)
RECURSIVE ApplyEach(_, _, _)
ApplyEach(M, data, i) ==
    IF i > Len(data) \/ M.exc THEN M
    ELSE ApplyEach(_setState(M, data[i].path, data[i].value, FALSE), data, i + 1)

\* TestDataGenerator.applyTestData(data); data is given as the list of its
\* section.key entries
applyTestData(M, data) ==
    LET m1 == CallMethod(M, "resetState")
    IN  IF m1.exc THEN m1 ELSE ApplyEach(m1, data, 1)

TestData ==
    { << In(<<"ui", "activeTab">>, Str("combat")) >>,
      << In(<<"settings", "theme">>, Str("light")),
         In(<<"combat", "round">>, Num(1)) >> }

HandleReset ==
    \E confirmed \in BOOLEAN :
        LET m == _handleReset(Machine(TRUE), confirmed)
        IN  /\ Commit(m)
            /\ Called("handleReset", <<>>, Bool(confirmed), <<>>, FALSE, m)
            /\ burst' = IF m.st # _state THEN [NoBurst EXCEPT !.on = TRUE] ELSE burst
            /\ UNCHANGED <<held, probe>>

ApplyTestData ==
    \E data \in TestData :
        LET m == applyTestData(Machine(TRUE), data)
        IN  /\ Commit(m)
            /\ Called("applyTestData", <<>>, Undef, data, FALSE, m)
            /\ burst' = IF m.st # _state THEN [NoBurst EXCEPT !.on = TRUE] ELSE burst
            /\ UNCHANGED <<held, probe>>

\* ------------------------------------------------------------------------
\* Path utility on its own
\* ------------------------------------------------------------------------
ProbeDocs ==
    { DefaultState,
      Obj(<<"ui", "combat">>,
          << Obj(<<"activeTab">>, <<Bool(TRUE)>>),
             Obj(<<"round", "activeIndex">>, <<Null, Str("")>>) >>) }

ProbePaths ==
    { <<"ui">>, <<"ui", "activeTab">>, <<"settings", "theme", "name">>,
      <<"combat", "round", "x">>, <<"combat", "activeIndex", "x">>,
      <<"combat", "initiative", "x">>, <<"ui", "activeTab", "a", "b">> }

ProbeValues == { Null, Num(0), Str("v"), Obj(<<"a">>, <<Num(1)>>), Arr(<<Num(1)>>) }

InitPath ==
    /\ InitStore
    /\ \E doc \in ProbeDocs, path \in ProbePaths, value \in ProbeValues :
          probe = [NoProbe EXCEPT !.pc = "start", !.doc = doc, !.path = path,
                                  !.value = value]

ProbeSet ==
    /\ probe.pc = "start"
    /\ probe' = [probe EXCEPT !.pc = "set",
                    !.out = _setNestedValue(probe.doc, probe.path, probe.value)]
    /\ UNCHANGED <<_state, _subscribers, _saveTimeout, timers, storage, calls,
                   events, writes, op, held, burst, view>>

ProbeGet ==
    /\ probe.pc = "set"
    /\ probe.out.ok
    /\ probe' = [probe EXCEPT !.pc = "got",
                    !.got = _getNestedValue(probe.out.val, probe.path)]
    /\ UNCHANGED <<_state, _subscribers, _saveTimeout, timers, storage, calls,
                   events, writes, op, held, burst, view>>

NextPath == ProbeSet \/ ProbeGet

SpecPath == InitPath /\ [][NextPath]_vars

\* ------------------------------------------------------------------------
\* Specifications of the store
\* ------------------------------------------------------------------------
Items == { Item("i1", "Goblin"), Anon("Bandit") }

Patches == { Obj(<<"name", "hp">>, <<Str("Boss"), Num(7)>>) }

\* a collection the document holds and one it does not hold yet
ItemPaths == { InitiativePath, <<"story", "notes">> }

\* mutations, the passing of time and the persist timer
ThrottleInputs ==
    { In(<<"ui", "activeTab">>, Str("combat")),
      In(<<"ui">>, Null) }

ThrottleMappings ==
    { << In(<<"ui", "activeTab">>, Str("combat")) >> }

NextThrottle ==
    \/ SetState(ThrottleInputs)
    \/ BatchUpdate(ThrottleMappings)
    \/ AddItem({InitiativePath}, {Item("i1", "Goblin")})
    \/ UpdateItem({InitiativePath}, Patches)
    \/ RemoveItem({InitiativePath})
    \/ Tick
    \/ TimerFire

SpecThrottle == Init /\ [][NextThrottle]_vars

\* the throttled persist and save()
NextSave ==
    \/ SetState(ThrottleInputs)
    \/ AddItem({InitiativePath}, {Item("i1", "Goblin")})
    \/ RemoveItem({InitiativePath})
    \/ Tick
    \/ TimerFire
    \/ Save

SpecSave == Init /\ [][NextSave]_vars

\* reads, and callers that change what a read returned, between mutations
ReadInputs ==
    { In(<<"settings">>, Obj(<<"autosaveInterval">>, <<Num(30)>>)),
      In(<<"combat", "activeIndex", "x">>, Num(1)),
      In(<<"ui">>, Null) }

NextRead ==
    \/ GetState
    \/ CallerMutate
    \/ SetState(ReadInputs)
    \/ AddItem({InitiativePath}, {Item("i1", "Goblin")})

SpecRead == Init /\ [][NextRead]_vars

\* subscribers and the notifications of setState and batchUpdate
NotifyInputs ==
    { In(<<"ui", "activeTab">>, Str("combat")),
      In(<<"ui", "activeTab", "a", "b">>, Num(1)),
      In(<<"ui">>, Null) }

NotifyMappings ==
    { <<>>,
      << In(<<"ui", "activeTab">>, Str("combat")),
         In(<<"combat", "activeIndex">>, Num(0)) >>,
      << In(<<"ui">>, Null) >> }

NextNotify ==
    \/ Subscribe
    \/ CallUnsubscribe
    \/ SetState(NotifyInputs)
    \/ BatchUpdate(NotifyMappings)

SpecNotify == Init /\ [][NextNotify]_vars

\* the item operations on a collection that exists and on one that is absent
NextItems ==
    \/ AddItem(ItemPaths, Items)
    \/ UpdateItem(ItemPaths, Patches)
    \/ RemoveItem(ItemPaths)

SpecItems == Init /\ [][NextItems]_vars

\* item operations with ids the collection holds and ids it does not hold,
\* while a persist timer is pending and a subscriber is registered
NextLookup ==
    \/ AddItem({InitiativePath}, {Item("i1", "Goblin")})
    \/ UpdateItem({InitiativePath}, Patches)
    \/ RemoveItem({InitiativePath})
    \/ SubscribeOf({"cbA"})
    \/ Tick
    \/ TimerFire

SpecLookup == Init /\ [][NextLookup]_vars

\* updateItem on items that carry a nested field
Monster(id) ==
    Obj(<<"id", "name", "hp">>,
        <<Str(id), Str("Goblin"), Obj(<<"current", "max">>, <<Num(7), Num(7)>>)>>)

\* a patch of a nested field, and one of a field the item has with a field
\* it does not have
UpdatePatches ==
    { Obj(<<"hp">>, <<Obj(<<"current">>, <<Num(3)>>)>>),
      Obj(<<"name", "ac">>, <<Str("Boss"), Num(15)>>) }

NextUpdate ==
    \/ AddItem({InitiativePath}, {Monster("i1"), Monster("i2")})
    \/ UpdateItem({InitiativePath}, UpdatePatches)
    \/ RemoveItem({InitiativePath})
    \/ SetState({In(<<"ui">>, Null)})

SpecUpdate == Init /\ [][NextUpdate]_vars

\* texts handed to import: one that does not parse, the scenario of the
\* specification, and an array over an array with an object over a number
ImportTexts ==
    { BadText,
      Obj(<<"settings">>, <<Obj(<<"autosaveInterval">>, <<Num(30)>>)>>),
      Obj(<<"combat">>,
          <<Obj(<<"initiative", "round">>,
                <<Arr(<<Item("i2", "Orc")>>), Obj(<<"x">>, <<Num(1)>>)>>)>>) }

NextImport ==
    \/ Import(ImportTexts)
    \/ SetState({In(<<"ui", "activeTab">>, Str("combat"))})
    \/ SubscribeOf({"cbA"})
    \/ Tick
    \/ TimerFire

SpecImport == Init /\ [][NextImport]_vars

\* reset after mutations, with a timer pending and subscribers registered
NextReset ==
    \/ Reset
    \/ SetState({In(<<"ui", "activeTab">>, Str("combat"))})
    \/ AddItem({InitiativePath}, {Item("i1", "Goblin")})
    \/ SubscribeOf({"cbA", "cbU"})
    \/ Tick
    \/ TimerFire

SpecReset == Init /\ [][NextReset]_vars

\* what localStorage holds under 'dmHudState' when the application starts:
\* nothing, a text that does not parse, the text 'null', a document with
\* other settings, a document with a campaign
BootEntries ==
    { NoEntry, BadEntry,
      [kind |-> "json", doc |-> Null],
      [kind |-> "json",
       doc |-> Obj(<<"settings">>, <<Obj(<<"autosaveInterval">>, <<Num(30)>>)>>)],
      [kind |-> "json",
       doc |-> Obj(<<"story">>,
                   <<Obj(<<"campaign">>, <<Obj(<<"name">>, <<Str("Saved")>>)>>)>>)] }

InitBoot ==
    /\ _state = DefaultState
    /\ _subscribers = <<>>
    /\ _saveTimeout = 0
    /\ timers = {}
    /\ storage \in BootEntries
    /\ calls = <<>>
    /\ events = <<>>
    /\ writes = 0
    /\ op = NoOp
    /\ held = NoHeld
    /\ burst = NoBurst
    /\ probe = NoProbe
    /\ view = NoView

NextBoot ==
    \/ SubscribeOf({"cbA", "cbU"})
    \/ Initialize
    \/ SetState({In(<<"ui", "activeTab">>, Str("combat"))})
    \/ Tick
    \/ TimerFire

SpecBoot == InitBoot /\ [][NextBoot]_vars

\* persists that storage accepts or rejects: timer-driven ones and the forced
\* ones of save, import and reset
NextStorage ==
    \/ SetState(ThrottleInputs)
    \/ Tick
    \/ TimerFire
    \/ Save
    \/ Import({Obj(<<"settings">>, <<Obj(<<"autosaveInterval">>, <<Num(30)>>)>>)})
    \/ Reset

SpecStorage == Init /\ [][NextStorage]_vars

\* subscribing a callback several times, unsubscribing, and notifications
NextSubs ==
    \/ SubscribeOf({"cbA", "cbU"})
    \/ CallUnsubscribeOf({"cbA", "cbU"})
    \/ SetState({In(<<"ui", "activeTab">>, Str("combat"))})

SpecSubs == Init /\ [][NextSubs]_vars

\* a subscriber that changes the value it is handed, under every operation
\* that notifies
NextHandOut ==
    \/ SubscribeOf({"cbM"})
    \/ Initialize
    \/ SetState({ In(<<"settings">>, Obj(<<"autosaveInterval">>, <<Num(30)>>)) })
    \/ BatchUpdate({ << In(<<"settings">>, Obj(<<"autosaveInterval">>, <<Num(30)>>)) >> })
    \/ Import({Obj(<<"settings">>, <<Obj(<<"autosaveInterval">>, <<Num(30)>>)>>)})
    \/ Reset

SpecHandOut == Init /\ [][NextHandOut]_vars

\* callers that keep and later change what they passed to setState,
\* batchUpdate and addItem
KeepInputs ==
    { In(<<"settings">>, Obj(<<"autosaveInterval">>, <<Num(30)>>)),
      In(<<"ui">>, Obj(<<"activeTab">>, <<Str("combat")>>)) }

KeepMappings ==
    { << In(<<"settings">>, Obj(<<"autosaveInterval">>, <<Num(30)>>)),
         In(InitiativePath, Arr(<<Item("i1", "Goblin")>>)) >> }

NextKeep ==
    \/ SetStateKeep(KeepInputs)
    \/ BatchUpdateKeep(KeepMappings)
    \/ AddItemKeep({InitiativePath}, {Anon("Bandit")})
    \/ CallerMutate

SpecKeep == Init /\ [][NextKeep]_vars

\* the Combat Console operations in any order
NextConsole ==
    \/ ConsoleInit
    \/ AddCombatant
    \/ RemoveCombatant
    \/ StartCombat
    \/ NextTurn
    \/ EndCombat

SpecConsole == Init /\ [][NextConsole]_vars

\* a subscriber that calls setState from inside a notification
NextReenter ==
    \/ SubscribeOf({"cbS", "cbA"})
    \/ CallUnsubscribeOf({"cbS", "cbA"})
    \/ SetState({ In(<<"ui", "activeTab">>, Str("combat")) })
    \/ Tick
    \/ TimerFire

SpecReenter == Init /\ [][NextReenter]_vars

\* the Character Manager on a document that holds characters and
\* relationships
InitRoster ==
    /\ _state = RosterState
    /\ _subscribers = <<>>
    /\ _saveTimeout = 0
    /\ timers = {}
    /\ storage = NoEntry
    /\ calls = <<>>
    /\ events = <<>>
    /\ writes = 0
    /\ op = NoOp
    /\ held = NoHeld
    /\ burst = NoBurst
    /\ probe = NoProbe
    /\ view = NoView

NextRoster ==
    \/ DeleteCharacter
    \/ CreateNewCharacter

SpecRoster == InitRoster /\ [][NextRoster]_vars

\* the text of a document whose combat section is that of a new store
IdleCombatText == Obj(<<"combat">>, <<GetProp(DefaultState, "combat")>>)

\* the Combat Console next to import and reset
NextDisplay ==
    \/ ConsoleInit
    \/ AddCombatant
    \/ StartCombat
    \/ NextTurn
    \/ EndCombat
    \/ Import({IdleCombatText})
    \/ Reset

SpecDisplay == Init /\ [][NextDisplay]_vars

\* mutations and the persist timer, with time passing and every due timer
\* run by the host, and storage accepting every write
NextLive ==
    \/ SetState(ThrottleInputs)
    \/ AddItem({InitiativePath}, {Item("i1", "Goblin")})
    \/ Tick
    \/ TimerFireOk

SpecLive == Init /\ [][NextLive]_vars /\ WF_vars(Tick) /\ WF_vars(TimerFireOk)

\* writes of a leaf, of a new key and of a whole section, followed by
\* page refreshes
RefreshInputs ==
    { In(<<"ui", "activeTab">>, Str("combat")),
      In(<<"settings", "theme">>, Str("light")),
      In(<<"settings">>, Obj(<<"autosaveInterval">>, <<Num(30)>>)) }

NextRefresh ==
    \/ SetState(RefreshInputs)
    \/ AddItem({InitiativePath}, {Item("i1", "Goblin")})
    \/ Tick
    \/ Refresh

SpecRefresh == Init /\ [][NextRefresh]_vars

\* setState on its own, over paths of every kind
SetPaths == SetInputs \cup
    { In(<<"ui", "lastSaved">>, Str("<then>")),
      In(<<"ui">>, Obj(<<"activeTab">>, <<Str("combat")>>)) }

NextSet ==
    \/ SetState(SetPaths)

SpecSet == Init /\ [][NextSet]_vars

\* a condition on a combatant (rendered at part_002:170-176)
Condition(id, duration) ==
    Obj(<<"id", "type", "duration">>, <<Str(id), Str("poisoned"), Num(duration)>>)

\* a combatant that carries conditions
Afflicted(id, conditions) == SetProp(Combatant(id), "conditions", Arr(conditions))

\* the condition lists the encounters start with
ConditionLists ==
    { <<>>, <<Condition("c1", 1)>>, <<Condition("c1", 2)>>,
      <<Condition("c1", 1), Condition("c2", 2)>> }

\* an encounter that was loaded with its combatants and their conditions
InitRounds ==
    /\ \E first \in ConditionLists \ {<<>>}, second \in {<<>>, <<Condition("c3", 1)>>} :
          _state = PutAt(DefaultState, InitiativePath,
                         Arr(<<Afflicted("i1", first), Afflicted("i2", second)>>))
    /\ _subscribers = <<>>
    /\ _saveTimeout = 0
    /\ timers = {}
    /\ storage = NoEntry
    /\ calls = <<>>
    /\ events = <<>>
    /\ writes = 0
    /\ op = NoOp
    /\ held = NoHeld
    /\ burst = NoBurst
    /\ probe = NoProbe
    /\ view = NoView

NextRounds ==
    \/ ConsoleInit
    \/ StartCombat
    \/ NextTurn
    \/ EndCombat
    \/ RemoveCombatant
    \/ AddCombatant

SpecRounds == InitRounds /\ [][NextRounds]_vars

\* the Settings reset and the test data generator over a store in use
NextSettings ==
    \/ SetState(RefreshInputs)
    \/ AddItem({InitiativePath}, {Item("i1", "Goblin")})
    \/ Tick
    \/ TimerFire
    \/ HandleReset
    \/ ApplyTestData

SpecSettings == Init /\ [][NextSettings]_vars

\* ------------------------------------------------------------------------
\* Claims
\* ------------------------------------------------------------------------
\* C1: the value getState returns shares no structure with the document:
\* when the caller mutates an object or array it holds, getState returns
\* for every path what it returned before the mutation
C1_SnapshotIsolation ==
    [][ op'.name = "mutate" =>
            \A path \in ReadPaths :
                _getState(_state', path).val = _getState(_state, path).val ]_vars

\* the caller has changed an object or array that getState returned from a
\* document that mutations had changed
C1_Witness ==
    /\ op.name = "mutate"
    /\ held.src = "getState"
    /\ IsRef(held.val)
    /\ _state # DefaultState
    /\ \E path \in ReadPaths : IsRef(_getState(_state, path).val)

\* C2: for every document, path and value, _setNestedValue returns a
\* document and _getNestedValue reads the value back from it at that path,
\* also when an intermediate segment is missing or holds a non-object value
C2_RoundTrip ==
    /\ probe.pc = "set" => probe.out.ok
    /\ probe.pc = "got" => probe.got = probe.value

\* C3: mutations that each follow the previous one by less than SAVE_DELAY
\* cause exactly one write, made SAVE_DELAY after the last of them; mutations
\* that are each more than SAVE_DELAY apart cause one write each.  Stated per
\* burst: nothing is written before SAVE_DELAY has passed since the last
\* mutation, and once more than SAVE_DELAY has passed exactly one write has
\* been made, at SAVE_DELAY
C3_Throttle ==
    burst.on =>
        /\ burst.age < SAVE_DELAY => burst.n = 0
        /\ burst.age > SAVE_DELAY => burst.n = 1
        /\ burst.n > 0 => burst.n = 1 /\ burst.at = SAVE_DELAY

\* C4: when save() returns no persist timer is pending and, if the write
\* succeeded, storage holds the serialization of the current document; after
\* a save() no timer fires until a later mutation arms one
C4_ForceSave ==
    [][ /\ op'.name = "save" =>
            /\ _saveTimeout' = 0
            /\ timers' = {}
            /\ op'.disk => storage' = Stringify(_state')
        /\ burst.saved => op'.name # "timer" ]_vars

\* save() was called during the quiet period of a mutation, while the timer
\* the mutation armed was pending, and the write succeeded
C4_Witness ==
    /\ op.name = "save"
    /\ op.disk
    /\ burst.on
    /\ burst.age < SAVE_DELAY
    /\ storage = Stringify(_state)
    /\ _state # DefaultState

\* the subscribers of the list subs were called in order, once each, with
\* path and value, and nothing else was called
CalledInOrder(log, subs, path, value) ==
    /\ Len(log) = Len(subs)
    /\ \A i \in 1..Len(subs) :
          /\ log[i].cb = subs[i]
          /\ log[i].path = path
          /\ log[i].value = value

\* C5: a non-silent setState that returns has invoked every callback that
\* was registered when it was called exactly once per registration, in
\* subscription order, with the path and the value, also when a callback
\* unsubscribes itself during the fan-out
C5_FanOut ==
    [][ (op'.name = "setState" /\ ~op'.silent /\ ~op'.exc) =>
            CalledInOrder(calls', _subscribers, op'.path, op'.value) ]_vars

\* C6: when the first subscriber throws during the notification of a
\* setState whose document was installed, the exception does not reach the
\* caller, the persist is scheduled, and every subscriber registered after
\* the throwing one is invoked with the same path and value
C6_ThrowIsolated ==
    [][ ( /\ op'.name = "setState"
          /\ ~op'.silent
          /\ Len(events') > 0
          /\ Len(_subscribers) > 0
          /\ _subscribers[1] = "cbT" ) =>
            /\ ~op'.exc
            /\ _getNestedValue(_state', op'.path) = op'.value
            /\ \E t \in timers' : t.id = _saveTimeout' /\ t.left = SAVE_DELAY
            /\ \A j \in 2..Len(_subscribers) :
                  \E k \in 1..Len(calls') :
                      /\ calls'[k].cb = _subscribers[j]
                      /\ calls'[k].path = op'.path
                      /\ calls'[k].value = op'.value ]_vars

\* C7: a silent setState or batchUpdate calls no subscriber and dispatches
\* no event, and leaves the document (with its ui.lastSaved stamp), the
\* timer handle, the pending timers and the outcome of the call as the
\* non-silent call with the same arguments leaves them
C7_Silent ==
    [][ /\ (op'.name = "setState" /\ op'.silent) =>
            LET m == _setState(Machine(TRUE), op'.path, op'.value, FALSE)
            IN  /\ calls' = <<>>
                /\ events' = <<>>
                /\ _state' = m.st
                /\ _saveTimeout' = m.tid
                /\ timers' = m.timers
                /\ op'.exc = m.exc
        /\ (op'.name = "batchUpdate" /\ op'.silent) =>
            LET m == _batchUpdate(Machine(TRUE), op'.upd, FALSE)
            IN  /\ calls' = <<>>
                /\ events' = <<>>
                /\ _state' = m.st
                /\ _saveTimeout' = m.tid
                /\ timers' = m.timers
                /\ op'.exc = m.exc ]_vars

\* a silent setState changed the document, stamped it and armed the timer
\* while subscribers were registered
C7_Witness ==
    /\ op.name = "setState"
    /\ op.silent
    /\ ~op.exc
    /\ Len(_subscribers) > 0
    /\ calls = <<>>
    /\ _getNestedValue(_state, op.path) = op.value
    /\ _getNestedValue(_state, <<"ui", "lastSaved">>) = Stamp
    /\ \E t \in timers : t.id = _saveTimeout

\* C8: a non-silent batchUpdate returns with one notification sent per path
\* of the mapping, in the mapping's order, each carrying the value at that
\* path in the final document; getState called inside a subscriber returns
\* the final document; one persist timer is armed
C8_Batch ==
    [][ (op'.name = "batchUpdate" /\ ~op'.silent) =>
            /\ ~op'.exc
            /\ Len(events') = Len(op'.upd)
            /\ \A i \in 1..Len(op'.upd) :
                  /\ events'[i].path = op'.upd[i].path
                  /\ events'[i].value = _getNestedValue(_state', op'.upd[i].path)
            /\ \A k \in 1..Len(calls') :
                  calls'[k].cb = "cbA" => calls'[k].snap = _getState(_state', <<"">>).val
            /\ Cardinality(timers') = 1
            /\ \E t \in timers' : t.id = _saveTimeout' /\ t.left = SAVE_DELAY ]_vars

\* number of elements whose id is itemId
CountId(elems, itemId) ==
    Cardinality({ i \in 1..Len(elems) : StrictEq(GetProp(elems[i], "id"), itemId) })

\* C9: addItem returns an id that exactly one element of the resulting
\* collection carries, whether or not the item came with an id, and
\* updateItem called next with that id returns true
C9_AddItem ==
    op.name = "addItem" =>
        /\ ~op.exc
        /\ CountId(ArrayAt(_state, op.path).e, op.ret) = 1
        /\ _updateItem(Machine(TRUE), op.path, op.ret, EmptyObj).ret = Bool(TRUE)

\* C10: removeItem returns false and leaves the length of the collection
\* unchanged when no element has the id; otherwise it returns true, the
\* length decreases by exactly one and the other elements keep their order
C10_RemoveItem ==
    [][ op'.name = "removeItem" =>
            LET before == ArrayAt(_state, op'.path).e
                after == ArrayAt(_state', op'.path).e
                index == FindIndex(before, op'.value)
            IN  IF index = 0
                THEN op'.ret = Bool(FALSE) /\ Len(after) = Len(before)
                ELSE /\ op'.ret = Bool(TRUE)
                     /\ Len(after) = Len(before) - 1
                     /\ after = SubSeq(before, 1, index - 1)
                                \o SubSeq(before, index + 1, Len(before)) ]_vars

\* C11: updateItem and removeItem called with an id that no element of the
\* collection carries return false, raise no exception and leave the
\* document (ui.lastSaved included), the pending timer, the stored document
\* and the subscriber list unchanged; no subscriber is called and no event
\* is dispatched
C11_LookupFailure ==
    [][ ( /\ op'.name \in {"updateItem", "removeItem"}
          /\ FindIndex(ArrayAt(_state, op'.path).e, op'.value) = 0 ) =>
            /\ op'.ret = Bool(FALSE)
            /\ ~op'.exc
            /\ _state' = _state
            /\ _saveTimeout' = _saveTimeout
            /\ timers' = timers
            /\ storage' = storage
            /\ _subscribers' = _subscribers
            /\ calls' = <<>>
            /\ events' = <<>>
            /\ writes' = 0 ]_vars

\* removeItem has returned false for an id that a collection with elements
\* does not hold, with a subscriber registered and a timer part-way down
C11_Witness ==
    /\ op.name = "removeItem"
    /\ op.ret = Bool(FALSE)
    /\ Len(ArrayAt(_state, op.path).e) > 0
    /\ Len(_subscribers) > 0
    /\ \E t \in timers : t.id = _saveTimeout /\ t.left < SAVE_DELAY

\* the own property names of an object
Keys(v) == { v.k[i] : i \in 1..Len(v.k) }

\* C12: an updateItem that returns true changes only the first element whose
\* id matches: the collection keeps its length, every other element is
\* unchanged, the changed element has each top-level field of the patch
\* equal to the patch's value (a nested value is replaced, not merged) and
\* every other top-level field as before
C12_ShallowMerge ==
    [][ (op'.name = "updateItem" /\ op'.ret = Bool(TRUE) /\ ~op'.exc) =>
            LET before == ArrayAt(_state, op'.path).e
                after == ArrayAt(_state', op'.path).e
                index == FindIndex(before, op'.value)
                updates == op'.upd[1]
            IN  /\ index # 0
                /\ Len(after) = Len(before)
                /\ \A i \in 1..Len(before) : i # index => after[i] = before[i]
                /\ Keys(after[index]) = Keys(before[index]) \cup Keys(updates)
                /\ \A key \in Keys(updates) :
                      GetProp(after[index], key) = GetProp(updates, key)
                /\ \A key \in Keys(before[index]) \ Keys(updates) :
                      GetProp(after[index], key) = GetProp(before[index], key) ]_vars

\* updateItem has replaced the nested hp of the first of two elements with
\* the same id; the element kept its name and the second element is as it
\* was added
C12_Witness ==
    /\ op.name = "updateItem"
    /\ op.ret = Bool(TRUE)
    /\ LET elems == ArrayAt(_state, op.path).e
       IN  /\ Len(elems) = 2
           /\ GetProp(elems[1], "hp") = Obj(<<"current">>, <<Num(3)>>)
           /\ GetProp(elems[1], "name") = Str("Goblin")
           /\ elems[2] = Monster("i1")

\* C13: import of a text that is not valid JSON returns false, raises no
\* exception and leaves the document, the stored document, the pending
\* timer and the subscriber list unchanged; no subscriber is called, no
\* event is dispatched and nothing is written
C13_BadImport ==
    [][ (op'.name = "import" /\ op'.value = BadText) =>
            /\ op'.ret = Bool(FALSE)
            /\ ~op'.exc
            /\ _state' = _state
            /\ storage' = storage
            /\ _saveTimeout' = _saveTimeout
            /\ timers' = timers
            /\ _subscribers' = _subscribers
            /\ calls' = <<>>
            /\ events' = <<>>
            /\ writes' = 0 ]_vars

\* import has rejected a bad text while the document differed from the
\* stored one, a timer was pending and a subscriber was registered
C13_Witness ==
    /\ op.name = "import"
    /\ op.value = BadText
    /\ op.ret = Bool(FALSE)
    /\ storage.kind = "json"
    /\ storage # Stringify(_state)
    /\ Len(_subscribers) > 0
    /\ \E t \in timers : t.id = _saveTimeout /\ t.left < SAVE_DELAY

RECURSIVE DeepMergeSpec(_, _, _)
\* the deep merge the specification describes, of the keys of imported from
\* the i-th on over current: where both values are plain objects the merge
\* recurses, otherwise the imported value wins
DeepMergeSpec(current, imported, i) ==
    IF i > Len(imported.k) THEN current
    ELSE LET key == imported.k[i]
             old == GetProp(current, key)
             new == IF isObject(old) /\ isObject(imported.c[i])
                    THEN DeepMergeSpec(old, imported.c[i], 1)
                    ELSE imported.c[i]
         IN  DeepMergeSpec(SetProp(current, key, new), imported, i + 1)

\* C14: after an import that returns true the document equals the deep merge
\* of the imported object over the document as it was: absent keys keep
\* their value, plain objects on both sides are merged recursively, and in
\* every other case the imported value is the value
C14_DeepMerge ==
    [][ (op'.name = "import" /\ op'.ret = Bool(TRUE) /\ isObject(op'.value)) =>
            _state' = DeepMergeSpec(_state, op'.value, 1) ]_vars

\* C15: from every state reset leaves the document equal to the default
\* skeleton (so a second reset yields the same document), cancels the
\* pending persist timer, writes the skeleton to storage at once (when
\* storage accepts the write) and notifies the subscribers once with the
\* empty path: one event, and every registered callback called once, in
\* order, with the empty path and the document
C15_Reset ==
    [][ op'.name = "reset" =>
            /\ ~op'.exc
            /\ _state' = DefaultState
            /\ _saveTimeout' = 0
            /\ timers' = {}
            /\ writes' = 1
            /\ op'.disk => storage' = Stringify(DefaultState)
            /\ events' = << [path |-> <<"">>, value |-> DefaultState] >>
            /\ CalledInOrder(calls', _subscribers, <<"">>, DefaultState) ]_vars

\* C16: initialize with no stored text or one that does not parse makes the
\* document the seed dataset (story.campaign.name is the seed name) and
\* writes it to storage at once; with a stored text that parses it applies
\* no seed data and writes nothing; in both cases no exception propagates
\* and the subscribers are notified exactly once, with the empty path and
\* the document that is in place: one event, and every registered callback
\* called once, in order
C16_Initialize ==
    [][ op'.name = "initialize" =>
            /\ ~op'.exc
            /\ storage.kind # "json" =>
                  /\ _getNestedValue(_state', <<"story", "campaign", "name">>)
                        = GetProp(SeedCampaign, "name")
                  /\ writes' = 1
                  /\ op'.disk => storage' = Stringify(_state')
            /\ storage.kind = "json" =>
                  /\ _state' = _deepMerge(_state, storage.doc)
                  /\ writes' = 0
                  /\ storage' = storage
            /\ events' = << [path |-> <<"">>, value |-> _state'] >>
            /\ CalledInOrder(calls', _subscribers, <<"">>, _state') ]_vars

\* the last operation made a write that storage rejected
WriteFailed(o, w) ==
    o.name \in {"timer", "save", "import", "reset"} /\ ~o.disk /\ w > 0

\* C17: when storage rejects the write of a timer-driven or forced persist,
\* no exception reaches the caller, the document is what it is when the
\* write succeeds (for the timer and save: unchanged), storage keeps its
\* previous content, one write was attempted and no timer is left pending;
\* the next write is made by save, import or reset, or after a mutation
C17_WriteFailure ==
    [][ /\ WriteFailed(op', writes') =>
            /\ ~op'.exc
            /\ storage' = storage
            /\ writes' = 1
            /\ timers' = {}
            /\ _saveTimeout' = 0
            /\ op'.name \in {"timer", "save"} => _state' = _state
            /\ op'.name = "import" =>
                  _state' = _importState(Machine(TRUE), op'.value).st
            /\ op'.name = "reset" => _state' = _resetState(Machine(TRUE)).st
        /\ (WriteFailed(op, writes) /\ writes' > 0) =>
            op'.name \in {"save", "import", "reset"} ]_vars

\* storage has rejected a timer-driven write and keeps an earlier document
\* that differs from the one in memory
C17_Witness ==
    /\ op.name = "timer"
    /\ ~op.disk
    /\ writes = 1
    /\ storage.kind = "json"
    /\ storage # Stringify(_state)
    /\ timers = {}

\* number of entries of a sequence of callbacks, or of call records, for cb
Entries(subs, cb) == Cardinality({ i \in 1..Len(subs) : subs[i] = cb })

Invocations(log, cb) == Cardinality({ i \in 1..Len(log) : log[i].cb = cb })

\* C18: subscribe appends one entry; a call of an unsubscribe function
\* removes the earliest entry of its callback and nothing else, and changes
\* nothing when the callback has no entry; a notification invokes a
\* callback as many times as it has entries
C18_SubscriberList ==
    [][ /\ op'.name = "subscribe" =>
            _subscribers' = Append(_subscribers, op'.value.p)
        /\ op'.name = "unsubscribe" =>
            IF Entries(_subscribers, op'.value.p) = 0
            THEN _subscribers' = _subscribers
            ELSE \E i \in 1..Len(_subscribers) :
                    /\ _subscribers[i] = op'.value.p
                    /\ \A j \in 1..(i - 1) : _subscribers[j] # op'.value.p
                    /\ _subscribers' = SubSeq(_subscribers, 1, i - 1)
                                       \o SubSeq(_subscribers, i + 1, Len(_subscribers))
        /\ (op'.name = "setState" /\ ~op'.silent /\ ~op'.exc) =>
            \A cb \in CbIds : Invocations(calls', cb) = Entries(_subscribers, cb) ]_vars

\* the store as the notifying operation o leaves it when no subscriber is
\* registered
Unobserved(o) ==
    LET M == [Machine(o.disk) EXCEPT !.subs = <<>>]
    IN  CASE o.name = "setState" -> _setState(M, o.path, o.value, FALSE)
          [] o.name = "batchUpdate" -> _batchUpdate(M, o.upd, FALSE)
          [] o.name = "import" -> _importState(M, o.value)
          [] o.name = "reset" -> _resetState(M)
          [] OTHER -> initialize(M)

\* C19: no value handed to a subscriber by setState, batchUpdate, import,
\* reset or initialize aliases the document: whatever a callback does to the
\* value it received, getState returns afterwards, for every path, what it
\* returns when no callback touched the value
C19_HandOut ==
    [][ ( /\ op'.name \in {"setState", "batchUpdate", "import", "reset", "initialize"}
          /\ ~op'.silent ) =>
            \A path \in ReadPaths :
                _getState(_state', path).val = _getState(Unobserved(op').st, path).val ]_vars

\* C20: after setState(p, v), batchUpdate(m) or addItem(p, item) has
\* returned, the caller holds no writable reference into the document: when
\* it changes the object v, a value of m or item, getState returns for every
\* path what it returned before
C20_NoCallerReference ==
    [][ ( /\ op'.name = "mutate"
          /\ held.src \in {"setState", "batchUpdate", "addItem"} ) =>
            \A path \in ReadPaths :
                _getState(_state', path).val = _getState(_state, path).val ]_vars

\* C21: in every state the Combat Console operations reach,
\* combat.inCombat = true implies 0 <= combat.activeIndex < length(combat.initiative)
C21_ActiveIndex ==
    LET combat == GetProp(_state, "combat")
        activeIndex == GetProp(combat, "activeIndex")
    IN  GetProp(combat, "inCombat") = Bool(TRUE) =>
            /\ activeIndex.t = "num"
            /\ 0 <= activeIndex.n
            /\ activeIndex.n < Len(GetProp(combat, "initiative").e)

\* position in the log of dispatched events, which are dispatched one per
\* mutation in the order the mutations were applied, of the first event that
\* carries the change record rec
EventPos(log, rec) ==
    CHOOSE k \in 1..Len(log) :
        /\ log[k].path = rec.path /\ log[k].value = rec.value
        /\ \A j \in 1..(k-1) : ~(log[j].path = rec.path /\ log[j].value = rec.value)

\* C22: mutations never interleave with the fan-out of an earlier mutation:
\* each subscriber receives the change records of an operation in the order
\* in which the mutations were applied to the document, also when a
\* subscriber calls setState during a notification
C22_NoInterleaving ==
    [][ \A i, j \in 1..Len(calls') :
            (i < j /\ calls'[i].cb = calls'[j].cb) =>
                EventPos(events', calls'[i]) <= EventPos(events', calls'[j]) ]_vars

\* some element of the collection at path has the id c
Listed(st, path, c) ==
    \E i \in 1..Len(ArrayAt(st, path).e) : GetProp(ArrayAt(st, path).e[i], "id") = c

\* some relationship has c as one of its two endpoints, in either shape
Related(st, c) ==
    \E i \in 1..Len(ArrayAt(st, RelationshipsPath).e) :
        \E key \in {"source", "target", "character1Id", "character2Id"} :
            GetProp(ArrayAt(st, RelationshipsPath).e[i], key) = c

\* C23: after the Character Manager deleted character c, c is in neither
\* playerCharacters nor npcs and no relationship has c as an endpoint,
\* whether it is shaped source/target or character1Id/character2Id
C23_DeleteCharacter ==
    [][ op'.name = "deleteCharacter" =>
            /\ ~Listed(_state', PlayerCharactersPath, op'.value)
            /\ ~Listed(_state', NpcsPath, op'.value)
            /\ ~Related(_state', op'.value) ]_vars

\* C24: after every non-silent mutation that changes the combat section the
\* Combat Console has re-rendered from a fresh snapshot: what it displays is
\* the combat section of the document; this includes start combat, next turn
\* and end combat, which write at path 'combat', and import and reset, which
\* notify with the empty path
C24_Rerender ==
    [][ ( /\ view.on
          /\ ~op'.silent
          /\ GetProp(_state', "combat") # GetProp(_state, "combat") ) =>
            view'.shown = StringifyParse(GetProp(_state', "combat")) ]_vars

\* a step that is a State Container mutation
MutationStep == op'.name \in {"setState", "addItem"}

\* C25: with the persist timer run fairly and storage writes succeeding,
\* after any mutation, silent or not, that no further mutation follows,
\* storage eventually holds the serialization of the document and keeps
\* holding it
C25_EventuallyPersisted ==
    <>[][~MutationStep]_vars => <>[](burst.on => storage = Stringify(_state))

RECURSIVE DeepEqual(_, _)
\* equality of two JSON values: objects are equal when they have the same
\* property names, in any order, with equal values
DeepEqual(a, b) ==
    IF a.t = "obj" /\ b.t = "obj"
    THEN /\ {a.k[i] : i \in 1..Len(a.k)} = {b.k[i] : i \in 1..Len(b.k)}
         /\ \A i \in 1..Len(a.k) : DeepEqual(a.c[i], GetProp(b, a.k[i]))
    ELSE IF a.t = "arr" /\ b.t = "arr"
    THEN /\ Len(a.e) = Len(b.e)
         /\ \A i \in 1..Len(a.e) : DeepEqual(a.e[i], b.e[i])
    ELSE a = b

\* C26: for every reachable document D, writing D to storage and running
\* initialize in a fresh store yields a document equal to D
C26_RefreshRecovers ==
    [][ op'.name = "refresh" => DeepEqual(_state', _state) ]_vars

\* p is path q or a path that leads to it
IsPrefix(p, q) == Len(p) <= Len(q) /\ SubSeq(q, 1, Len(p)) = p

\* the paths at which the frame of a write is observed
FramePaths ==
    { <<"ui">>, <<"ui", "activeTab">>, <<"story">>, <<"combat">>,
      <<"combat", "round">>, <<"combat", "activeIndex">>, <<"settings">> }

\* C27: for every path p and JSON value v, setState(p, v) returns normally,
\* getState(p) equals v immediately afterwards, and the value at every path
\* that neither contains nor lies inside p, other than ui.lastSaved, is
\* unchanged; p = 'ui.lastSaved' and p = 'ui' included
C27_SetState ==
    [][ op'.name = "setState" =>
            /\ ~op'.exc
            /\ DeepEqual(_getState(_state', op'.path).val, op'.value)
            /\ \A q \in FramePaths :
                 (~IsPrefix(q, op'.path) /\ ~IsPrefix(op'.path, q)) =>
                    _getState(_state', q).val =
                        IF q = <<"ui">>
                        THEN SetProp(_getState(_state, q).val, "lastSaved", Stamp)
                        ELSE _getState(_state, q).val ]_vars

RECURSIVE Aged(_)
\* the conditions with a positive duration, each with its duration decreased
\* by one and left out when that reaches 0
Aged(conditions) ==
    IF conditions = <<>> THEN <<>>
    ELSE LET c == Head(conditions)
             d == GetProp(c, "duration")
         IN  IF d.t = "num" /\ d.n > 1
             THEN <<SetProp(c, "duration", Num(d.n - 1))>> \o Aged(Tail(conditions))
             ELSE Aged(Tail(conditions))

RECURSIVE Timed(_)
\* the conditions with a positive duration
Timed(conditions) ==
    IF conditions = <<>> THEN <<>>
    ELSE IF Positive(GetProp(Head(conditions), "duration"))
         THEN <<Head(conditions)>> \o Timed(Tail(conditions))
         ELSE Timed(Tail(conditions))

\* the conditions of the i-th combatant of document st
ConditionsOf(st, i) == GetProp(ArrayAt(st, InitiativePath).e[i], "conditions").e

\* C28: each time next turn wraps the turn order into a new round, every
\* condition with a positive duration on every combatant has its stored
\* duration decreased by one and is removed when the duration reaches 0
C28_ConditionsExpire ==
    [][ ( /\ op'.name = "nextTurn"
          /\ _getNestedValue(_state, <<"combat", "inCombat">>) = Bool(TRUE)
          /\ Len(ArrayAt(_state, InitiativePath).e) > 0
          /\ _getNestedValue(_state', <<"combat", "activeIndex">>) = Num(0) ) =>
            \A i \in 1..Len(ArrayAt(_state, InitiativePath).e) :
                Timed(ConditionsOf(_state', i)) = Aged(ConditionsOf(_state, i)) ]_vars

\* a combatant without regard to its conditions
Bare(combatant) == SetProp(combatant, "conditions", Arr(<<>>))

\* C29: while in combat with a non-empty initiative list, next turn sets
\* combat.activeIndex to (activeIndex + 1) mod length(initiative), increases
\* combat.round by exactly one if the new activeIndex is 0 and leaves it
\* unchanged otherwise; inCombat and the initiative list (the combatants and
\* their order) are unchanged by the turn advance.  activeIndex is read as
\* the number the addition reads it as: a stored null counts as 0
C29_NextTurn ==
    [][ ( /\ op'.name = "nextTurn"
          /\ _getNestedValue(_state, <<"combat", "inCombat">>) = Bool(TRUE)
          /\ Len(ArrayAt(_state, InitiativePath).e) > 0 ) =>
            LET before == GetProp(_state, "combat")
                after == GetProp(_state', "combat")
                n == Len(GetProp(before, "initiative").e)
                next == (ToNumber(GetProp(before, "activeIndex")).n + 1) % n
            IN  /\ ~op'.exc
                /\ GetProp(before, "activeIndex").t \in {"num", "null"}
                /\ GetProp(after, "activeIndex") = Num(next)
                /\ GetProp(after, "round") =
                      IF next = 0 THEN Num(GetProp(before, "round").n + 1)
                      ELSE GetProp(before, "round")
                /\ GetProp(after, "inCombat") = Bool(TRUE)
                /\ Len(GetProp(after, "initiative").e) = n
                /\ \A i \in 1..n : Bare(GetProp(after, "initiative").e[i])
                                   = Bare(GetProp(before, "initiative").e[i]) ]_vars

\* next turn has wrapped a turn order of two combatants into round 2
C29_Witness ==
    /\ op.name = "nextTurn"
    /\ _getNestedValue(_state, <<"combat", "inCombat">>) = Bool(TRUE)
    /\ _getNestedValue(_state, <<"combat", "activeIndex">>) = Num(0)
    /\ _getNestedValue(_state, <<"combat", "round">>) = Num(2)
    /\ Len(ArrayAt(_state, InitiativePath).e) = 2


\* the call made on behalf of the user or the generator reached reset
ResetCalled ==
    \/ op.name = "handleReset" /\ op.value = Bool(TRUE)
    \/ op.name = "applyTestData"

\* C30: when the user confirms 'Reset All Settings', and when
\* applyTestData starts, the store's reset runs: no exception is raised by
\* the call into StateManager, the first change record is the empty-path
\* record carrying the default skeleton, and after the Settings reset the
\* document equals the default skeleton.
C30_ResetRuns ==
    [][ResetCalled' =>
          /\ ~op'.exc
          /\ events' # <<>>
          /\ events'[1] = [path |-> <<"">>, value |-> DefaultState]
          /\ op'.name = "handleReset" => _state' = DefaultState]_vars

====
